---- MODULE Spec2Model ----
(***************************************************************************)
(* Model of core/blackboard.py (EnhancedBlackboard): the in-memory bus the *)
(* agents publish to, with its subscription registry, dispatcher,         *)
(* question/response correlator and opinion ledger.                        *)
(*                                                                         *)
(* Strings whose characters matter (topics, patterns, opinions) are        *)
(* sequences of one-character strings.  A Python None is the string        *)
(* "None"; an optional value is a sequence of length 0 or 1.               *)
(*                                                                         *)
(* post() is re-entrant: a handler awaited by _notify_subscribers may call *)
(* post, ask_question, respond_to_question or post_opinion before it       *)
(* returns.  The variable stack holds one frame per post() whose dispatch  *)
(* loop is suspended inside a handler; the top frame's handler is the code *)
(* that is running.  With an empty stack the caller is the orchestrator or *)
(* an agent's analyze method.                                              *)
(***************************************************************************)
EXTENDS Integers, Sequences, FiniteSets, TLC

\* ---------------------------------------------------------------- bounds
MaxPosts == 2        \* publishes over the process lifetime
MaxSubs == 2         \* subscription entries in the registry

\* ------------------------------------------------------- program constants
CRITICAL == 1
HIGH == 2
NORMAL == 3
LOW == 4
Priority == {CRITICAL, HIGH, NORMAL, LOW}

FINDING == "finding"
QUESTION == "question"
RESPONSE == "response"
ALERT == "alert"
CONSENSUS == "consensus"
MessageType == {FINDING, QUESTION, RESPONSE, ALERT, CONSENSUS}

ConsensusThreshold == 3
OpinionKeyLen == 50

None == "None"

\* ------------------------------------------------------------ string helpers
Star == "*"

StartsWith(s, p) == Len(p) <= Len(s) /\ SubSeq(s, 1, Len(p)) = p

EndsWith(s, p) == Len(p) <= Len(s) /\ SubSeq(s, Len(s) - Len(p) + 1, Len(s)) = p

DigitChar(d) == <<"0", "1", "2", "3", "4", "5", "6", "7", "8", "9">>[d + 1]

RECURSIVE IntToStr(_)
IntToStr(n) == IF n < 10 THEN <<DigitChar(n)>>
               ELSE IntToStr(n \div 10) \o <<DigitChar(n % 10)>>

QuestionPrefix == <<"q", "u", "e", "s", "t", "i", "o", "n", "_">>

QuestionTopic(k) == QuestionPrefix \o IntToStr(k)

\* ---------------------------------------------------------------- the state
VARIABLES
    subscribers,        \* ordered dict: Seq of [pattern, subs: Seq of [agent_id, callback]]
    knowledge_base,     \* dict: topic -> Seq of messages
    conversation_log,   \* list of messages
    active_alerts,      \* list of messages
    pending_questions,  \* list of question records
    agent_opinions,     \* ordered dict: Seq of [topic, opinions: Seq of [agent_id, opinion, confidence, timestamp]]
    consensus_topics,   \* dict: topic -> consensus record
    stack,              \* post() calls suspended in a handler, outermost first
    now,                \* the last reading of the clock
    returned,           \* outcome of the call that completed last
    deliveries,         \* history: per log entry, the handler invocations made for it
    calls,              \* history: arguments of the post() calls started since the last clear
    issued,             \* history: the ids given to messages since the process started
    sessions,           \* analyze_patient() calls: run -> the phase it has reached
    twin                \* a second bus given the same calls with other priorities

vars == <<subscribers, knowledge_base, conversation_log, active_alerts,
          pending_questions, agent_opinions, consensus_topics, stack, now,
          returned, deliveries, calls, issued, sessions, twin>>

\* ------------------------------------------------------------ small helpers
Min(S) == CHOOSE x \in S : \A y \in S : x <= y

Last(s) == s[Len(s)]

IsPrefix(s, t) == Len(s) <= Len(t) /\ SubSeq(t, 1, Len(s)) = s

\* datetime.now(): a reading is never earlier than the one before it, and two
\* readings may be equal (the clock has a finite resolution).
ClockValues == {0, 1}

ReadClock(t) == {u \in ClockValues : u >= t}

\* ------------------------------------------------------------ pattern matcher
\* _matches_pattern(topic, pattern)
\* MatchesPattern without the branch of the leading wildcard.
MatchesPatternPrefixOnly(topic, pattern) ==
    IF pattern = topic THEN TRUE
    ELSE IF pattern # <<>> /\ Last(pattern) = Star
         THEN StartsWith(topic, SubSeq(pattern, 1, Len(pattern) - 1))
    ELSE FALSE

\* MatchesPattern testing the leading wildcard before the trailing one.
MatchesPatternSuffixFirst(topic, pattern) ==
    IF pattern = topic THEN TRUE
    ELSE IF pattern # <<>> /\ Head(pattern) = Star
         THEN EndsWith(topic, Tail(pattern))
    ELSE IF pattern # <<>> /\ Last(pattern) = Star
         THEN StartsWith(topic, SubSeq(pattern, 1, Len(pattern) - 1))
    ELSE FALSE

\* _matches_pattern(topic, pattern)
MatchesPattern(topic, pattern) ==
    IF pattern = topic THEN TRUE
    ELSE IF pattern # <<>> /\ Last(pattern) = Star
         THEN StartsWith(topic, SubSeq(pattern, 1, Len(pattern) - 1))
    ELSE IF pattern # <<>> /\ Head(pattern) = Star
         THEN EndsWith(topic, Tail(pattern))
    ELSE FALSE

\* ------------------------------------------------------ subscription registry
\* subscribe(): one append per pattern, to the list kept under that pattern; a
\* pattern seen for the first time goes to the end of the (ordered) dict.
RECURSIVE AddSubscriptions(_, _, _, _)
AddSubscriptions(subs, agent_id, event_patterns, callback) ==
    IF event_patterns = <<>> THEN subs
    ELSE LET pattern == Head(event_patterns)
             entry == [agent_id |-> agent_id, callback |-> callback]
             at == {i \in 1..Len(subs) : subs[i].pattern = pattern}
             subs1 == IF at = {}
                      THEN Append(subs, [pattern |-> pattern, subs |-> <<entry>>])
                      ELSE [subs EXCEPT ![Min(at)].subs = Append(@, entry)]
         IN AddSubscriptions(subs1, agent_id, Tail(event_patterns), callback)

\* Entries walking the patterns from the newest to the oldest.
RECURSIVE EntriesNewestPatternFirst(_)
EntriesNewestPatternFirst(subs) ==
    IF subs = <<>> THEN <<>>
    ELSE EntriesNewestPatternFirst(Tail(subs))
         \o [i \in 1..Len(Head(subs).subs) |->
                [pattern |-> Head(subs).pattern,
                 agent_id |-> Head(subs).subs[i].agent_id,
                 callback |-> Head(subs).subs[i].callback]]

\* The order in which _notify_subscribers walks the registry: patterns in dict
\* order, and under each pattern its subscribers in list order.
RECURSIVE Entries(_)
Entries(subs) ==
    IF subs = <<>> THEN <<>>
    ELSE [i \in 1..Len(Head(subs).subs) |->
             [pattern |-> Head(subs).pattern,
              agent_id |-> Head(subs).subs[i].agent_id,
              callback |-> Head(subs).subs[i].callback]]
         \o Entries(Tail(subs))

NumEntries(subs) == Len(Entries(subs))

\* ------------------------------------------------------------------ dispatcher
\* Eligible with messages of priority LOW kept from the subscribers.
EligibleNotLow(f, e) ==
    /\ MatchesPattern(f.message.topic, e.pattern)
    /\ e.agent_id # f.message.agent_id
    /\ e.agent_id \notin f.notified
    /\ f.message.priority # LOW

\* Eligible without the test `agent_id != message['agent_id']`.
EligibleNoSenderCheck(f, e) ==
    /\ MatchesPattern(f.message.topic, e.pattern)
    /\ e.agent_id \notin f.notified

\* The test of _notify_subscribers on one subscription entry, for the message
\* of frame f: the pattern matches, the subscriber is not the sender and is
\* not in notified_agents.
Eligible(f, e) ==
    /\ MatchesPattern(f.message.topic, e.pattern)
    /\ e.agent_id # f.message.agent_id
    /\ e.agent_id \notin f.notified

\* NextPos with a loop that stops after the first successful notification.
NextPosFirstOnly(f) ==
    LET es == Entries(subscribers)
        S == {p \in (f.pos + 1)..Len(es) :
                 /\ MatchesPattern(f.message.topic, es[p].pattern)
                 /\ es[p].agent_id # f.message.agent_id
                 /\ es[p].agent_id \notin f.notified}
    IN IF S = {} \/ f.notified # {} THEN 0 ELSE Min(S)

\* The next entry, after position f.pos, whose callback the loop calls; 0 when
\* the loop runs to its end.
NextPos(f) ==
    LET S(g, es) == {p \in (g.pos + 1)..Len(es) : Eligible(g, es[p])}
        First(g, es) == IF S(g, es) = {} THEN 0 ELSE Min(S(g, es))
    IN CHOOSE n \in {First(g, es) : g \in {f}, es \in {Entries(subscribers)}} : TRUE

\* notified_agents once the callback of frame f has ended: the add follows
\* the call inside the try block.
NotifiedAfter(f, outcome) ==
    IF outcome = "ok" THEN f.notified \cup {f.agent_id} ELSE f.notified

\* Caught without the try block around the callback.
CaughtNothing(e) == FALSE

\* `except Exception`: what a handler raises is an Exception.
Caught(e) == TRUE

\* returned: the outcome of the publishing call (post, ask_question,
\* respond_to_question) that the last step completed: op names the call, raised
\* tells whether it ended by raising, value is what it returned (<<>> for
\* None), message and idx are the message it published and its place in the
\* log.  NoPublish when the last step completed no such call.
NoPublish == [op |-> "none", raised |-> FALSE, value |-> <<>>, message |-> <<>>, idx |-> 0]

\* PostResult with a `return message` at the end of post().
PostResultMessage(message) == <<message>>

\* What post() hands back: the function has no return statement.
PostResult(message) == <<>>

\* The value the call that owns frame f returns: ask_question returns its
\* question_data (the object in pending_questions), post and
\* respond_to_question return None.
Return(f, pq) ==
    [op |-> f.op, raised |-> FALSE,
     value |-> IF f.op = "ask_question" THEN <<pq[f.qidx]>> ELSE PostResult(f.message),
     message |-> <<f.message>>, idx |-> f.idx]

\* Runs the loop of _notify_subscribers on from the position of frame f until it calls a
\* callback (the frame is suspended on the stack) or ends (the call returns).
Advance(stk, f, dl, pq) ==
    LET p == NextPos(f)
        e == Entries(subscribers)[p]
    IN IF p = 0
       THEN [stack |-> stk, deliveries |-> dl, returned |-> Return(f, pq)]
       ELSE [stack |-> Append(stk, [f EXCEPT !.pos = p, !.agent_id = e.agent_id,
                                             !.callback = e.callback]),
             deliveries |-> [dl EXCEPT ![f.idx] =
                                Append(@, [agent_id |-> e.agent_id, callback |-> e.callback,
                                           pos |-> p, topic |-> f.message.topic,
                                           message |-> f.message, outcome |-> "running"])],
             returned |-> NoPublish]

\* ------------------------------------------------------------------- post()
MessageId(agent_id, t) == <<agent_id, "_", t>>

\* LogAppend with insert(0, message).
LogPrepend(log, message) == <<message>> \o log

\* LogAppend that keeps only the newest message.
LogOverwrite(log, message) == <<message>>

LogAppend(log, message) == Append(log, message)

\* KnowledgeAppend with `self.knowledge_base[topic] = [message]`.
KnowledgeOverwrite(kb, topic, message) ==
    [x \in DOMAIN kb \cup {topic} |-> IF x = topic THEN <<message>> ELSE kb[x]]

\* KnowledgeAppend that stores the first message of a topic only.
KnowledgeKeepFirst(kb, topic, message) ==
    IF topic \in DOMAIN kb THEN kb ELSE kb @@ (topic :> <<message>>)

KnowledgeAppend(kb, topic, message) ==
    IF topic \in DOMAIN kb THEN [kb EXCEPT ![topic] = Append(@, message)]
    ELSE kb @@ (topic :> <<message>>)

\* AlertsAppend recording the messages of type ALERT.
AlertsAppendByType(alerts, message, priority) ==
    IF message.type = ALERT THEN Append(alerts, message) ELSE alerts

\* AlertsAppend recording the messages of priority HIGH as well.
AlertsAppendHighToo(alerts, message, priority) ==
    IF priority \in {CRITICAL, HIGH} THEN Append(alerts, message) ELSE alerts

\* if priority == Priority.CRITICAL: self.active_alerts.append(message)
AlertsAppend(alerts, message, priority) ==
    IF priority = CRITICAL THEN Append(alerts, message) ELSE alerts

\* The agent on whose behalf the running code calls the bus: any agent when no
\* dispatch is in progress, the subscriber whose handler is running otherwise
\* (the handlers pass self.agent_id).
CanCall(agent_id) == IF stack = <<>> THEN TRUE ELSE agent_id = Last(stack).agent_id

\* post(), from its first line up to the first callback it awaits (or to its
\* return, when it calls none).  t is the last clock reading before the call,
\* pq the pending questions as the caller leaves them.
DoPost(agent_id, message_type, topic, content, priority, op, t, pq, qidx) ==
    /\ CanCall(agent_id)
    /\ Len(issued) < MaxPosts
    /\ \E t1 \in ReadClock(t) : \E t2 \in ReadClock(t1) :
          LET message == [id |-> MessageId(agent_id, t1), timestamp |-> t2,
                          agent_id |-> agent_id, type |-> message_type,
                          topic |-> topic, content |-> content,
                          priority |-> priority]
              log2 == LogAppend(conversation_log, message)
              f == [op |-> op, message |-> message, idx |-> Len(log2), pos |-> 0,
                    agent_id |-> None, callback |-> None, notified |-> {},
                    qidx |-> qidx]
              r == Advance(stack, f, Append(deliveries, <<>>), pq)
          IN /\ conversation_log' = log2
             /\ knowledge_base' = KnowledgeAppend(knowledge_base, topic, message)
             /\ active_alerts' = AlertsAppend(active_alerts, message, priority)
             /\ now' = t2
             /\ stack' = r.stack
             /\ deliveries' = r.deliveries
             /\ returned' = r.returned
             /\ calls' = Append(calls, [agent_id |-> agent_id, type |-> message_type,
                                        topic |-> topic, content |-> content,
                                        priority |-> priority])
             /\ issued' = Append(issued, message.id)

Post(agent_id, message_type, topic, content, priority) ==
    /\ DoPost(agent_id, message_type, topic, content, priority, "post", now,
              pending_questions, 0)
    /\ UNCHANGED <<subscribers, pending_questions, agent_opinions, consensus_topics, sessions, twin>>

\* The callback of the top frame returns (and its coroutine, if it is one, has
\* been awaited): the loop goes on behind it.
HandlerReturn ==
    /\ stack # <<>>
    /\ LET f == Last(stack)
           f1 == [f EXCEPT !.notified = NotifiedAfter(f, "ok")]
           dl == [deliveries EXCEPT ![f.idx][Len(deliveries[f.idx])].outcome = "ok"]
       IN \E r \in {Advance(SubSeq(stack, 1, Len(stack) - 1), f1, dl,
                             pending_questions)} :
             /\ stack' = r.stack
             /\ deliveries' = r.deliveries
             /\ returned' = r.returned
    /\ UNCHANGED <<subscribers, knowledge_base, conversation_log, active_alerts,
                   pending_questions, agent_opinions, consensus_topics, now,
                   calls, issued, sessions, twin>>

\* The callback of the top frame raises e.
HandlerRaise(e) ==
    /\ stack # <<>>
    /\ LET f == Last(stack)
           f1 == [f EXCEPT !.notified = NotifiedAfter(f, "raised")]
           dl == [deliveries EXCEPT ![f.idx][Len(deliveries[f.idx])].outcome = "raised"]
           r == Advance(SubSeq(stack, 1, Len(stack) - 1), f1, dl, pending_questions)
       IN IF Caught(e)
          THEN /\ stack' = r.stack
               /\ deliveries' = r.deliveries
               /\ returned' = r.returned
          ELSE \* nothing catches e on its way out of post(), nor in the
               \* handlers that awaited it: every call in progress ends with e
               /\ stack' = <<>>
               /\ deliveries' = dl
               /\ returned' = [op |-> stack[1].op, raised |-> TRUE, value |-> <<>>,
                               message |-> <<stack[1].message>>, idx |-> stack[1].idx]
    /\ UNCHANGED <<subscribers, knowledge_base, conversation_log, active_alerts,
                   pending_questions, agent_opinions, consensus_topics, now,
                   calls, issued, sessions, twin>>

\* ----------------------------------------------------- questions and responses
\* `target_agents or 'all'`: the string 'all' is the sequence of its characters.
TargetsOrAll(target_agents) ==
    IF target_agents = <<>> THEN <<"a", "l", "l">> ELSE target_agents

\* list.index(q): the position of the first element equal to q.
IndexOf(list, q) == Min({i \in 1..Len(list) : list[i] = q})

\* FindQuestion taking the last question for an id it does not find.
FindQuestionOrLast(pq, question_id) ==
    LET S == {i \in 1..Len(pq) : QuestionTopic(IndexOf(pq, pq[i])) = question_id}
    IN IF S = {} THEN Len(pq) ELSE Min(S)

\* The position of the question the loop of respond_to_question stops at, 0 if
\* it stops at none.
FindQuestion(pq, question_id) ==
    LET S == {i \in 1..Len(pq) : QuestionTopic(IndexOf(pq, pq[i])) = question_id}
    IN IF S = {} THEN 0 ELSE Min(S)

\* AskQuestion with `self.pending_questions.insert(0, question_data)`.
AskQuestionInsertFirst(agent_id, question, target_agents) ==
    LET question_data == [question |-> question, asking_agent |-> agent_id,
                          target_agents |-> TargetsOrAll(target_agents),
                          responses |-> <<>>]
        pq == <<question_data>> \o pending_questions
    IN /\ DoPost(agent_id, QUESTION, QuestionTopic(Len(pq)), question, NORMAL,
                 "ask_question", now, pq, 1)
       /\ pending_questions' = pq
       /\ UNCHANGED <<subscribers, agent_opinions, consensus_topics, sessions, twin>>

\* AskQuestion deriving the topic before the question is appended.
AskQuestionTopicBeforeAppend(agent_id, question, target_agents) ==
    LET question_data == [question |-> question, asking_agent |-> agent_id,
                          target_agents |-> TargetsOrAll(target_agents),
                          responses |-> <<>>]
        pq == Append(pending_questions, question_data)
    IN /\ DoPost(agent_id, QUESTION, QuestionTopic(Len(pending_questions)), question,
                 NORMAL, "ask_question", now, pq, Len(pq))
       /\ pending_questions' = pq
       /\ UNCHANGED <<subscribers, agent_opinions, consensus_topics, sessions, twin>>

\* ask_question(agent_id, question, target_agents)
AskQuestion(agent_id, question, target_agents) ==
    LET question_data == [question |-> question, asking_agent |-> agent_id,
                          target_agents |-> TargetsOrAll(target_agents),
                          responses |-> <<>>]
        pq == Append(pending_questions, question_data)
    IN /\ DoPost(agent_id, QUESTION, QuestionTopic(Len(pq)), question, NORMAL,
                 "ask_question", now, pq, Len(pq))
       /\ pending_questions' = pq
       /\ UNCHANGED <<subscribers, agent_opinions, consensus_topics, sessions, twin>>

RespondToQuestion(agent_id, question_id, response) ==
    LET k == FindQuestion(pending_questions, question_id)
    IN IF k = 0
       THEN /\ CanCall(agent_id)
            /\ returned' = NoPublish
            /\ UNCHANGED <<subscribers, knowledge_base, conversation_log,
                           active_alerts, pending_questions, agent_opinions,
                           consensus_topics, stack, now, deliveries, calls, issued, sessions, twin>>
       ELSE \E t \in ReadClock(now) :
              LET pq == [pending_questions EXCEPT ![k].responses =
                            Append(@, [agent_id |-> agent_id, response |-> response,
                                       timestamp |-> t])]
              IN /\ DoPost(agent_id, RESPONSE, question_id, response, NORMAL,
                           "respond_to_question", t, pq, 0)
                 /\ pending_questions' = pq
                 /\ UNCHANGED <<subscribers, agent_opinions, consensus_topics, sessions, twin>>

\* ------------------------------------------------------ opinions and consensus
UpperChars == <<"A", "B", "C", "D", "E", "F", "G", "H", "I", "J", "K", "L", "M",
                "N", "O", "P", "Q", "R", "S", "T", "U", "V", "W", "X", "Y", "Z">>

LowerChars == <<"a", "b", "c", "d", "e", "f", "g", "h", "i", "j", "k", "l", "m",
                "n", "o", "p", "q", "r", "s", "t", "u", "v", "w", "x", "y", "z">>

\* The lower-case letter of each upper-case letter.
UpperSet == {UpperChars[i] : i \in 1..Len(UpperChars)}

ToLower ==
    [c \in UpperSet |-> LowerChars[CHOOSE i \in 1..Len(UpperChars) : UpperChars[i] = c]]

LowerChar(c) == IF c \in UpperSet THEN ToLower[c] ELSE c

\* str.lower()
Lower(s) == [i \in 1..Len(s) |-> LowerChar(s[i])]

\* ------------------------------------------- the consensus builder's grouping
\* sub in s
Contains(s, sub) ==
    \E i \in 0..(Len(s) - Len(sub)) : SubSeq(s, i + 1, i + Len(sub)) = sub

Pneumonia == <<"p", "n", "e", "u", "m", "o", "n", "i", "a">>
Sepsis == <<"s", "e", "p", "s", "i", "s">>
Heart == <<"h", "e", "a", "r", "t">>
HeartFailure == Heart \o <<" ", "f", "a", "i", "l", "u", "r", "e">>
Bronchitis == <<"b", "r", "o", "n", "c", "h", "i", "t", "i", "s">>
Respiratory == <<"r", "e", "s", "p", "i", "r", "a", "t", "o", "r", "y">>
Undifferentiated ==
    <<"u", "n", "d", "i", "f", "f", "e", "r", "e", "n", "t", "i", "a", "t", "e", "d">>
UndifferentiatedIllness == Undifferentiated \o <<" ", "i", "l", "l", "n", "e", "s", "s">>

\* The key _analyze_agreements files a diagnosis under in its own
\* diagnosis_groups, which it reads from the opinions on primary_diagnosis.
DiagnosisKey(diagnosis) ==
    LET l == Lower(diagnosis)
    IN IF Contains(l, Pneumonia) THEN Pneumonia
       ELSE IF Contains(l, Sepsis) THEN Sepsis
       ELSE IF Contains(l, Heart) THEN HeartFailure
       ELSE IF Contains(l, Bronchitis) THEN diagnosis
       ELSE IF Contains(l, Respiratory) THEN diagnosis
       ELSE IF l # UndifferentiatedIllness THEN diagnosis
       ELSE Undifferentiated

\* The named categories of that grouping.
Categories == {Pneumonia, Sepsis, HeartFailure}

\* The category of a statement, None for a statement that has none.
Category(diagnosis) ==
    LET l == Lower(diagnosis)
    IN IF Contains(l, Pneumonia) \/ Contains(l, Sepsis) \/ Contains(l, Heart)
       THEN DiagnosisKey(diagnosis) ELSE None

\* ------------------------------------------------- the blackboard's grouping
\* OpinionKey filing a statement under its category when it has one.
OpinionKeyByCategory(opinion) ==
    LET l == Lower(opinion)
    IN IF Category(opinion) # None THEN Category(opinion)
       ELSE IF Len(l) <= OpinionKeyLen THEN l ELSE SubSeq(l, 1, OpinionKeyLen)

\* data['opinion'].lower()[:50]
OpinionKey(opinion) ==
    LET l == Lower(opinion)
    IN IF Len(l) <= OpinionKeyLen THEN l ELSE SubSeq(l, 1, OpinionKeyLen)

\* opinion_groups after the loop over opinions.items(): the groups in dict
\* order, a group entering the dict with its first member, and the members of
\* a group in the order of the ledger.
RECURSIVE OpinionGroups(_)
OpinionGroups(ops) ==
    IF ops = <<>> THEN <<>>
    ELSE LET rest == OpinionGroups(SubSeq(ops, 1, Len(ops) - 1))
             data == Last(ops)
             key == OpinionKey(data.opinion)
             member == [agent |-> data.agent_id, confidence |-> data.confidence]
             at == {i \in 1..Len(rest) : rest[i].key = key}
         IN IF at = {} THEN Append(rest, [key |-> key, members |-> <<member>>])
            ELSE [rest EXCEPT ![Min(at)].members = Append(@, member)]

\* sum(a['confidence'] for a in members)
RECURSIVE SumConfidence(_)
SumConfidence(members) ==
    IF members = <<>> THEN 0
    ELSE Head(members).confidence + SumConfidence(Tail(members))

\* MajorityOpinion taking the last of the groups with the highest sum.
MajorityOpinionLast(opinion_groups) ==
    LET total == [i \in 1..Len(opinion_groups) |->
                     SumConfidence(opinion_groups[i].members)]
        best == {i \in 1..Len(opinion_groups) :
                    \A j \in 1..Len(opinion_groups) : total[j] <= total[i]}
    IN opinion_groups[CHOOSE i \in best : \A j \in best : j <= i]

\* max(opinion_groups.items(), key=...): the first group, in dict order, whose
\* sum no other group exceeds.
MajorityOpinion(opinion_groups) ==
    LET total == [i \in 1..Len(opinion_groups) |->
                     SumConfidence(opinion_groups[i].members)]
        best == {i \in 1..Len(opinion_groups) :
                    \A j \in 1..Len(opinion_groups) : total[j] <= total[i]}
    IN opinion_groups[Min(best)]

\* AttemptConsensus dividing the sum by the size of the majority group.
AttemptConsensusGroupMean(topic, ops) ==
    LET opinion_groups == OpinionGroups(ops)
        majority_opinion == MajorityOpinion(opinion_groups)
        majority == majority_opinion.members
    IN [topic |-> topic,
        consensus |-> majority_opinion.key,
        supporting_agents |-> [i \in 1..Len(majority) |-> majority[i].agent],
        confidence |-> [num |-> SumConfidence(majority), den |-> Len(majority)],
        dissenting_opinions |-> Len(opinion_groups) - 1]

\* _attempt_consensus(topic) on the opinions ops of the topic.  Confidences are
\* counted in tenths; the quotient sum / len(opinions) is kept as the pair of
\* its numerator (in tenths) and its denominator.
AttemptConsensus(topic, ops) ==
    LET opinion_groups == OpinionGroups(ops)
        majority_opinion == MajorityOpinion(opinion_groups)
        majority == majority_opinion.members
    IN [topic |-> topic,
        consensus |-> majority_opinion.key,
        supporting_agents |-> [i \in 1..Len(majority) |-> majority[i].agent],
        confidence |-> [num |-> SumConfidence(majority), den |-> Len(ops)],
        dissenting_opinions |-> Len(opinion_groups) - 1]

\* SetOpinion with `self.agent_opinions[topic] = {agent_id: {...}}`.
SetOpinionAlone(ops, agent_id, entry) == <<entry>>

\* SetOpinion writing over the first entry of the topic.
SetOpinionOverFirst(ops, agent_id, entry) ==
    IF ops = <<>> THEN <<entry>> ELSE [ops EXCEPT ![1] = entry]

\* SetOpinion adding an entry on every call.
SetOpinionAppend(ops, agent_id, entry) == Append(ops, entry)

\* self.agent_opinions[topic][agent_id] = {...}: a new key goes to the end of
\* the dict, an existing key keeps its place.
SetOpinion(ops, agent_id, entry) ==
    LET at == {i \in 1..Len(ops) : ops[i].agent_id = agent_id}
    IN IF at = {} THEN Append(ops, entry) ELSE [ops EXCEPT ![Min(at)] = entry]

\* EnoughOpinions with a threshold of two.
EnoughOpinionsAtTwo(ops) == Len(ops) >= ConsensusThreshold - 1

\* if len(self.agent_opinions[topic]) >= 3
EnoughOpinions(ops) == Len(ops) >= ConsensusThreshold

\* StoreConsensus keeping the record a topic already has.
StoreConsensusKeepOld(records, topic, consensus) ==
    IF topic \in DOMAIN records THEN records
    ELSE [x \in DOMAIN records \cup {topic} |->
             IF x = topic THEN consensus ELSE records[x]]

\* self.consensus_topics[topic] = consensus
StoreConsensus(records, topic, consensus) ==
    [x \in DOMAIN records \cup {topic} |->
        IF x = topic THEN consensus ELSE records[x]]

PostOpinion(agent_id, topic, opinion, confidence) ==
    /\ CanCall(agent_id)
    /\ \E t \in ReadClock(now) :
          LET old == IF topic \in DOMAIN agent_opinions THEN agent_opinions[topic] ELSE <<>>
              ops == SetOpinion(old, agent_id,
                                [agent_id |-> agent_id, opinion |-> opinion,
                                 confidence |-> confidence, timestamp |-> t])
          IN /\ agent_opinions' = [x \in DOMAIN agent_opinions \cup {topic} |->
                                      IF x = topic THEN ops ELSE agent_opinions[x]]
             /\ consensus_topics' =
                   IF EnoughOpinions(ops)
                   THEN StoreConsensus(consensus_topics, topic,
                                       AttemptConsensus(topic, ops))
                   ELSE consensus_topics
             /\ now' = t
    /\ returned' = NoPublish
    /\ UNCHANGED <<subscribers, knowledge_base, conversation_log, active_alerts,
                   pending_questions, stack, deliveries, calls, issued, sessions, twin>>

\* ------------------------------------------------------- subscribe and clear
\* subscribe() is called by the agents' constructors, and clear() by the
\* orchestrator at the start of a session: neither from inside a handler.
Subscribe(agent_id, event_patterns, callback) ==
    /\ stack = <<>>
    /\ NumEntries(subscribers) + Len(event_patterns) <= MaxSubs
    /\ subscribers' = AddSubscriptions(subscribers, agent_id, event_patterns, callback)
    /\ returned' = NoPublish
    /\ UNCHANGED <<knowledge_base, conversation_log, active_alerts,
                   pending_questions, agent_opinions, consensus_topics, stack,
                   now, deliveries, calls, issued, sessions, twin>>

EmptyDict == [x \in {} |-> <<>>]

\* Clear without self.active_alerts.clear().
ClearKeepsAlerts ==
    /\ stack = <<>>
    /\ knowledge_base' = EmptyDict
    /\ conversation_log' = <<>>
    /\ agent_opinions' = EmptyDict
    /\ consensus_topics' = EmptyDict
    /\ pending_questions' = <<>>
    /\ deliveries' = <<>>
    /\ calls' = <<>>
    /\ returned' = NoPublish
    /\ UNCHANGED <<subscribers, active_alerts, stack, now, issued, sessions, twin>>

\* Clear with self.subscribers.clear() added.
ClearDropsSubscribers ==
    /\ stack = <<>>
    /\ subscribers' = <<>>
    /\ knowledge_base' = EmptyDict
    /\ conversation_log' = <<>>
    /\ active_alerts' = <<>>
    /\ agent_opinions' = EmptyDict
    /\ consensus_topics' = EmptyDict
    /\ pending_questions' = <<>>
    /\ deliveries' = <<>>
    /\ calls' = <<>>
    /\ returned' = NoPublish
    /\ UNCHANGED <<stack, now, issued, sessions, twin>>

\* clear()
Clear ==
    /\ stack = <<>>
    /\ knowledge_base' = EmptyDict
    /\ conversation_log' = <<>>
    /\ active_alerts' = <<>>
    /\ agent_opinions' = EmptyDict
    /\ consensus_topics' = EmptyDict
    /\ pending_questions' = <<>>
    /\ deliveries' = <<>>
    /\ calls' = <<>>
    /\ returned' = NoPublish
    /\ UNCHANGED <<subscribers, stack, now, issued, sessions, twin>>

\* ------------------------------------------------------------ the orchestrator
\* analyze_patient() runs as a coroutine on the event loop next to the other
\* requests: it gives up control where it awaits asyncio.sleep(1), and from
\* its first line to there nothing else runs.  A session is "idle" before the
\* call, "cleared" after blackboard.clear(), "loaded" once patient_data is
\* posted (it sleeps there), "done" after _compile_results.
Running(run) == sessions[run] = "cleared"

\* The topic of the patient record.
PatientData == <<"p", "a", "t", "i", "e", "n", "t", "_", "d", "a", "t", "a">>

\* The event loop may run a step of `run`: no handler is running and no other
\* call is between two of its awaits.
MayRun(run) ==
    /\ stack = <<>>
    /\ \A r \in DOMAIN sessions : r # run => ~Running(r)

\* analyze_patient(), its first statements: blackboard.clear()
AnalyzeStart(run) ==
    /\ MayRun(run)
    /\ sessions[run] = "idle"
    /\ sessions' = [sessions EXCEPT ![run] = "cleared"]
    /\ knowledge_base' = EmptyDict
    /\ conversation_log' = <<>>
    /\ active_alerts' = <<>>
    /\ agent_opinions' = EmptyDict
    /\ consensus_topics' = EmptyDict
    /\ pending_questions' = <<>>
    /\ deliveries' = <<>>
    /\ calls' = <<>>
    /\ returned' = NoPublish
    /\ UNCHANGED <<subscribers, stack, now, issued, twin>>

\* analyze_patient(), the post of the patient record; the phases that follow
\* start after a sleep.
AnalyzeLoad(run, priority) ==
    /\ MayRun(run)
    /\ sessions[run] = "cleared"
    /\ sessions' = [sessions EXCEPT ![run] = "loaded"]
    /\ DoPost("System", FINDING, PatientData, run, priority, "post", now,
              pending_questions, 0)
    /\ UNCHANGED <<subscribers, pending_questions, agent_opinions, consensus_topics,
                   twin>>

\* analyze_patient(), its last statement: _compile_results reads the stores.
AnalyzeCompile(run) ==
    /\ MayRun(run)
    /\ sessions[run] = "loaded"
    /\ sessions' = [sessions EXCEPT ![run] = "done"]
    /\ returned' = NoPublish
    /\ UNCHANGED <<subscribers, knowledge_base, conversation_log, active_alerts,
                   pending_questions, agent_opinions, consensus_topics, stack,
                   now, deliveries, calls, issued, twin>>

\* ------------------------------------------------------------ the second bus
\* A second run of the bus, kept in step with the first: it has the same
\* subscriptions and is given the same calls, with its own priorities.
NoTwin == [conversation_log |-> <<>>, knowledge_base |-> EmptyDict,
           active_alerts |-> <<>>, stack |-> <<>>, deliveries |-> <<>>,
           returned |-> NoPublish]

\* post() on bus b, for the message built from its arguments.
PostOn(b, message) ==
    LET log2 == LogAppend(b.conversation_log, message)
        f == [op |-> "post", message |-> message, idx |-> Len(log2), pos |-> 0,
              agent_id |-> None, callback |-> None, notified |-> {}, qidx |-> 0]
        r == Advance(b.stack, f, Append(b.deliveries, <<>>), pending_questions)
    IN [conversation_log |-> log2,
        knowledge_base |-> KnowledgeAppend(b.knowledge_base, message.topic, message),
        active_alerts |-> AlertsAppend(b.active_alerts, message, message.priority),
        stack |-> r.stack, deliveries |-> r.deliveries, returned |-> r.returned]

\* The return of the running callback on bus b.
ReturnOn(b) ==
    LET f == Last(b.stack)
        f1 == [f EXCEPT !.notified = NotifiedAfter(f, "ok")]
        dl == [b.deliveries EXCEPT ![f.idx][Len(b.deliveries[f.idx])].outcome = "ok"]
        r == Advance(SubSeq(b.stack, 1, Len(b.stack) - 1), f1, dl, pending_questions)
    IN [b EXCEPT !.stack = r.stack, !.deliveries = r.deliveries,
                 !.returned = r.returned]

\* The same subscribe() call on both buses, which share the registry.
TwinSubscribe(agent_id, event_patterns, callback) ==
    /\ stack = <<>>
    /\ twin.stack = <<>>
    /\ NumEntries(subscribers) + Len(event_patterns) <= MaxSubs
    /\ subscribers' = AddSubscriptions(subscribers, agent_id, event_patterns, callback)
    /\ returned' = NoPublish
    /\ twin' = [twin EXCEPT !.returned = NoPublish]
    /\ UNCHANGED <<knowledge_base, conversation_log, active_alerts,
                   pending_questions, agent_opinions, consensus_topics, stack,
                   now, deliveries, calls, issued, sessions>>

\* The same post() call on both buses, with priority `other` on the second.
TwinPost(agent_id, message_type, topic, content, priority, other) ==
    /\ IF twin.stack = <<>> THEN TRUE ELSE agent_id = Last(twin.stack).agent_id
    /\ DoPost(agent_id, message_type, topic, content, priority, "post", now,
              pending_questions, 0)
    /\ twin' = PostOn(twin, [Last(conversation_log') EXCEPT !.priority = other])
    /\ UNCHANGED <<subscribers, pending_questions, agent_opinions,
                   consensus_topics, sessions>>

\* The running callback returns on both buses.
TwinHandlerReturn ==
    /\ stack # <<>>
    /\ twin.stack # <<>>
    /\ LET f == Last(stack)
           f1 == [f EXCEPT !.notified = NotifiedAfter(f, "ok")]
           dl == [deliveries EXCEPT ![f.idx][Len(deliveries[f.idx])].outcome = "ok"]
           r == Advance(SubSeq(stack, 1, Len(stack) - 1), f1, dl, pending_questions)
       IN /\ stack' = r.stack
          /\ deliveries' = r.deliveries
          /\ returned' = r.returned
    /\ twin' = ReturnOn(twin)
    /\ UNCHANGED <<subscribers, knowledge_base, conversation_log, active_alerts,
                   pending_questions, agent_opinions, consensus_topics, now,
                   calls, issued, sessions>>

\* ------------------------------------------------------------------ the agents
\* The five agents of the orchestrator, in the order in which it imports
\* them: each subscribes its handle_event in its constructor.
AgentIds == <<"LabAnalyzer", "ImageAnalyzer", "RiskStratifier", "ClinicalDecision",
              "ConsensusBuilder">>

\* self.agent_id, as the text that the handlers look for in a payload.
LabAnalyzerName ==
    <<"L", "a", "b", "A", "n", "a", "l", "y", "z", "e", "r">>

ImageAnalyzerName ==
    <<"I", "m", "a", "g", "e", "A", "n", "a", "l", "y", "z", "e", "r">>

RiskStratifierName ==
    <<"R", "i", "s", "k", "S", "t", "r", "a", "t", "i", "f", "i", "e", "r">>

ClinicalDecisionName ==
    <<"C", "l", "i", "n", "i", "c", "a", "l", "D", "e", "c", "i", "s", "i",
      "o", "n">>

ConsensusBuilderName ==
    <<"C", "o", "n", "s", "e", "n", "s", "u", "s", "B", "u", "i", "l", "d",
      "e", "r">>

\* self.agent_id as the text that the handlers look for.
AgentName ==
    [LabAnalyzer |-> LabAnalyzerName, ImageAnalyzer |-> ImageAnalyzerName,
     RiskStratifier |-> RiskStratifierName, ClinicalDecision |-> ClinicalDecisionName,
     ConsensusBuilder |-> ConsensusBuilderName]

SepsisSuspected ==
    <<"s", "e", "p", "s", "i", "s", "_", "s", "u", "s", "p", "e", "c", "t",
      "e", "d">>

SevereInfectionDetected ==
    <<"s", "e", "v", "e", "r", "e", "_", "i", "n", "f", "e", "c", "t", "i",
      "o", "n", "_", "d", "e", "t", "e", "c", "t", "e", "d">>

ReviewingForInfection ==
    <<"r", "e", "v", "i", "e", "w", "i", "n", "g", "_", "f", "o", "r", "_",
      "i", "n", "f", "e", "c", "t", "i", "o", "n">>

SepsisProtocolInitiated ==
    <<"s", "e", "p", "s", "i", "s", "_", "p", "r", "o", "t", "o", "c", "o",
      "l", "_", "i", "n", "i", "t", "i", "a", "t", "e", "d">>

RiskAssessmentComplete ==
    <<"r", "i", "s", "k", "_", "a", "s", "s", "e", "s", "s", "m", "e", "n",
      "t", "_", "c", "o", "m", "p", "l", "e", "t", "e">>

CriticalPrefix ==
    <<"c", "r", "i", "t", "i", "c", "a", "l", "_">>

CompleteSuffix ==
    <<"_", "c", "o", "m", "p", "l", "e", "t", "e">>

Pat_patient_data ==
    <<"p", "a", "t", "i", "e", "n", "t", "_", "d", "a", "t", "a">>

Pat_xray_any ==
    <<"x", "r", "a", "y", "_", "*">>

Pat_question_any ==
    <<"q", "u", "e", "s", "t", "i", "o", "n", "_", "*">>

Pat_severe_infection_detected ==
    <<"s", "e", "v", "e", "r", "e", "_", "i", "n", "f", "e", "c", "t", "i",
      "o", "n", "_", "d", "e", "t", "e", "c", "t", "e", "d">>

Pat_cardiac_issue_detected ==
    <<"c", "a", "r", "d", "i", "a", "c", "_", "i", "s", "s", "u", "e", "_",
      "d", "e", "t", "e", "c", "t", "e", "d">>

Pat_lab_analysis_complete ==
    <<"l", "a", "b", "_", "a", "n", "a", "l", "y", "s", "i", "s", "_", "c",
      "o", "m", "p", "l", "e", "t", "e">>

Pat_xray_analysis_complete ==
    <<"x", "r", "a", "y", "_", "a", "n", "a", "l", "y", "s", "i", "s", "_",
      "c", "o", "m", "p", "l", "e", "t", "e">>

Pat_pneumonia_confirmed_any ==
    <<"p", "n", "e", "u", "m", "o", "n", "i", "a", "_", "c", "o", "n", "f",
      "i", "r", "m", "e", "d", "_", "*">>

Pat_sepsis_suspected ==
    <<"s", "e", "p", "s", "i", "s", "_", "s", "u", "s", "p", "e", "c", "t",
      "e", "d">>

Pat_critical_any ==
    <<"c", "r", "i", "t", "i", "c", "a", "l", "_", "*">>

Pat_risk_assessment_complete ==
    <<"r", "i", "s", "k", "_", "a", "s", "s", "e", "s", "s", "m", "e", "n",
      "t", "_", "c", "o", "m", "p", "l", "e", "t", "e">>

Pat_sepsis_any ==
    <<"s", "e", "p", "s", "i", "s", "_", "*">>

Pat_any_confirmed ==
    <<"*", "_", "c", "o", "n", "f", "i", "r", "m", "e", "d">>

Pat_clinical_decision_complete ==
    <<"c", "l", "i", "n", "i", "c", "a", "l", "_", "d", "e", "c", "i", "s",
      "i", "o", "n", "_", "c", "o", "m", "p", "l", "e", "t", "e">>

Pat_any_complete ==
    <<"*", "_", "c", "o", "m", "p", "l", "e", "t", "e">>

\* The event patterns each agent subscribes to.
AgentPatterns ==
    [LabAnalyzer |-> <<Pat_patient_data, Pat_xray_any, Pat_question_any>>,
     ImageAnalyzer |-> <<Pat_severe_infection_detected, Pat_cardiac_issue_detected, Pat_lab_analysis_complete, Pat_question_any>>,
     RiskStratifier |-> <<Pat_lab_analysis_complete, Pat_xray_analysis_complete, Pat_pneumonia_confirmed_any, Pat_sepsis_suspected, Pat_critical_any, Pat_patient_data, Pat_question_any>>,
     ClinicalDecision |-> <<Pat_risk_assessment_complete, Pat_lab_analysis_complete, Pat_xray_analysis_complete, Pat_pneumonia_confirmed_any, Pat_sepsis_any, Pat_patient_data, Pat_question_any, Pat_any_confirmed>>,
     ConsensusBuilder |-> <<Pat_clinical_decision_complete, Pat_question_any, Pat_risk_assessment_complete, Pat_any_confirmed, Pat_any_complete>>]

\* The registry once the five agents are constructed.
RECURSIVE RegisterAgents(_, _)
RegisterAgents(subs, agents) ==
    IF agents = <<>> THEN subs
    ELSE RegisterAgents(AddSubscriptions(subs, Head(agents), AgentPatterns[Head(agents)],
                                         "handle_event"),
                        Tail(agents))

AgentRegistry == RegisterAgents(<<>>, AgentIds)

Kidney ==
    <<"k", "i", "d", "n", "e", "y">>

Dosing ==
    <<"d", "o", "s", "i", "n", "g">>

ConsensusWord ==
    <<"c", "o", "n", "s", "e", "n", "s", "u", "s">>

AdditionalTests ==
    <<"a", "d", "d", "i", "t", "i", "o", "n", "a", "l", " ", "t", "e", "s",
      "t", "s">>

AggressiveManagement ==
    <<"a", "g", "g", "r", "e", "s", "s", "i", "v", "e", " ", "m", "a", "n",
      "a", "g", "e", "m", "e", "n", "t">>

LabResponse ==
    <<"Y", "e", "s", ",", " ", "w", "i", "t", "h", " ", "t", "h", "e", " ",
      "c", "u", "r", "r", "e", "n", "t", " ", "k", "i", "d", "n", "e", "y",
      " ", "f", "u", "n", "c", "t", "i", "o", "n", ",", " ", "w", "e", " ",
      "s", "h", "o", "u", "l", "d", " ", "r", "e", "d", "u", "c", "e", " ",
      "a", "n", "t", "i", "b", "i", "o", "t", "i", "c", " ", "d", "o", "s",
      "e", "s", " ", "b", "y", " ", "5", "0", "%", " ", "a", "n", "d", " ",
      "a", "v", "o", "i", "d", " ", "n", "e", "p", "h", "r", "o", "t", "o",
      "x", "i", "c", " ", "m", "e", "d", "i", "c", "a", "t", "i", "o", "n",
      "s", ".">>

ReviewingText ==
    <<"R", "e", "-", "e", "x", "a", "m", "i", "n", "i", "n", "g", " ", "i",
      "m", "a", "g", "i", "n", "g", " ", "f", "o", "r", " ", "s", "u", "b",
      "t", "l", "e", " ", "s", "i", "g", "n", "s", " ", "o", "f", " ", "p",
      "n", "e", "u", "m", "o", "n", "i", "a", " ", "g", "i", "v", "e", "n",
      " ", "l", "a", "b", " ", "f", "i", "n", "d", "i", "n", "g", "s">>

SepsisBundleText ==
    <<"I", "n", "i", "t", "i", "a", "t", "i", "n", "g", " ", "s", "e", "p",
      "s", "i", "s", " ", "b", "u", "n", "d", "l", "e", " ", "-", " ", "l",
      "a", "b", "s", ",", " ", "c", "u", "l", "t", "u", "r", "e", "s", ",",
      " ", "a", "n", "t", "i", "b", "i", "o", "t", "i", "c", "s", ",", " ",
      "f", "l", "u", "i", "d", "s">>

ConsensusStatusHead ==
    <<"I", "'", "m", " ", "w", "o", "r", "k", "i", "n", "g", " ", "o", "n",
      " ", "b", "u", "i", "l", "d", "i", "n", "g", " ", "c", "o", "n", "s",
      "e", "n", "s", "u", "s", ".", " ", "C", "u", "r", "r", "e", "n", "t",
      " ", "s", "t", "a", "t", "u", "s", ":", "\n", "-", " ">>

ConsensusStatusTopics ==
    <<" ", "t", "o", "p", "i", "c", "s", " ", "h", "a", "v", "e", " ", "r",
      "e", "a", "c", "h", "e", "d", " ", "c", "o", "n", "s", "e", "n", "s",
      "u", "s", "\n", "-", " ">>

ConsensusStatusTail ==
    <<" ", "c", "r", "i", "t", "i", "c", "a", "l", " ", "i", "s", "s", "u",
      "e", "s", " ", "i", "d", "e", "n", "t", "i", "f", "i", "e", "d", "\n",
      "-", " ", "F", "i", "n", "a", "l", " ", "r", "e", "c", "o", "m", "m",
      "e", "n", "d", "a", "t", "i", "o", "n", " ", "c", "o", "m", "i", "n",
      "g", " ", "s", "h", "o", "r", "t", "l", "y">>

EmptyListText ==
    <<"[", "]">>

ImageTestsResponse ==
    <<"F", "o", "r", " ", "p", "n", "e", "u", "m", "o", "n", "i", "a", " ",
      "v", "s", " ", "a", "t", "y", "p", "i", "c", "a", "l", " ", "p", "n",
      "e", "u", "m", "o", "n", "i", "a", ":", " ", "C", "o", "n", "s", "i",
      "d", "e", "r", " ", "C", "T", " ", "c", "h", "e", "s", "t", " ", "f",
      "o", "r", " ", "b", "e", "t", "t", "e", "r", " ", "c", "h", "a", "r",
      "a", "c", "t", "e", "r", "i", "z", "a", "t", "i", "o", "n", ".", " ",
      "A", "l", "s", "o", " ", "r", "e", "c", "o", "m", "m", "e", "n", "d",
      " ", "b", "l", "o", "o", "d", " ", "c", "u", "l", "t", "u", "r", "e",
      "s", " ", "a", "n", "d", " ", "r", "e", "s", "p", "i", "r", "a", "t",
      "o", "r", "y", " ", "p", "a", "t", "h", "o", "g", "e", "n", " ", "p",
      "a", "n", "e", "l", ".">>

RiskResponse ==
    <<"Y", "e", "s", ",", " ", "c", "l", "i", "n", "i", "c", "a", "l", " ",
      "s", "c", "o", "r", "e", "s", " ", "h", "a", "v", "e", " ", "b", "e",
      "e", "n", " ", "v", "a", "l", "i", "d", "a", "t", "e", "d", " ", "t",
      "o", " ", "p", "r", "e", "d", "i", "c", "t", " ", "d", "e", "t", "e",
      "r", "i", "o", "r", "a", "t", "i", "o", "n", ".", " ", "E", "v", "e",
      "n", " ", "w", "i", "t", "h", " ", "n", "o", "r", "m", "a", "l", " ",
      "l", "a", "b", "s", " ", "n", "o", "w", ",", " ", "h", "i", "g", "h",
      " ", "s", "c", "o", "r", "e", "s", " ", "i", "n", "d", "i", "c", "a",
      "t", "e", " ", "i", "m", "p", "e", "n", "d", "i", "n", "g", " ", "d",
      "e", "c", "o", "m", "p", "e", "n", "s", "a", "t", "i", "o", "n", ".",
      " ", "R", "e", "c", "o", "m", "m", "e", "n", "d", " ", "p", "r", "o",
      "c", "e", "e", "d", "i", "n", "g", " ", "w", "i", "t", "h", " ", "h",
      "i", "g", "h", "e", "r", " ", "l", "e", "v", "e", "l", " ", "o", "f",
      " ", "c", "a", "r", "e", ".">>

ClinicalDosingResponse ==
    <<"A", "b", "s", "o", "l", "u", "t", "e", "l", "y", " ", "c", "o", "r",
      "r", "e", "c", "t", ".", " ", "W", "i", "t", "h", " ", "k", "i", "d",
      "n", "e", "y", " ", "d", "y", "s", "f", "u", "n", "c", "t", "i", "o",
      "n", ",", " ", "w", "e", " ", "m", "u", "s", "t", " ", "a", "d", "j",
      "u", "s", "t", " ", "d", "o", "s", "e", "s", ":", "\n", "-", " ", "R",
      "e", "d", "u", "c", "e", " ", "b", "e", "t", "a", "-", "l", "a", "c",
      "t", "a", "m", " ", "a", "n", "t", "i", "b", "i", "o", "t", "i", "c",
      "s", " ", "b", "y", " ", "5", "0", "%", "\n", "-", " ", "A", "v", "o",
      "i", "d", " ", "N", "S", "A", "I", "D", "s", " ", "c", "o", "m", "p",
      "l", "e", "t", "e", "l", "y", "\n", "-", " ", "M", "o", "n", "i", "t",
      "o", "r", " ", "d", "r", "u", "g", " ", "l", "e", "v", "e", "l", "s",
      " ", "f", "o", "r", " ", "v", "a", "n", "c", "o", "m", "y", "c", "i",
      "n", " ", "i", "f", " ", "u", "s", "e", "d">>

ClinicalTestsResponse ==
    <<"F", "o", "r", " ", "p", "n", "e", "u", "m", "o", "n", "i", "a", " ",
      "d", "i", "f", "f", "e", "r", "e", "n", "t", "i", "a", "l", ":", "\n",
      "-", " ", "R", "e", "s", "p", "i", "r", "a", "t", "o", "r", "y", " ",
      "v", "i", "r", "a", "l", " ", "p", "a", "n", "e", "l", "\n", "-", " ",
      "L", "e", "g", "i", "o", "n", "e", "l", "l", "a", " ", "a", "n", "d",
      " ", "p", "n", "e", "u", "m", "o", "c", "o", "c", "c", "a", "l", " ",
      "a", "n", "t", "i", "g", "e", "n", "s", "\n", "-", " ", "P", "r", "o",
      "c", "a", "l", "c", "i", "t", "o", "n", "i", "n", " ", "t", "o", " ",
      "g", "u", "i", "d", "e", " ", "a", "n", "t", "i", "b", "i", "o", "t",
      "i", "c", " ", "d", "u", "r", "a", "t", "i", "o", "n", "\n", "-", " ",
      "C", "o", "n", "s", "i", "d", "e", "r", " ", "b", "r", "o", "n", "c",
      "h", "o", "s", "c", "o", "p", "y", " ", "i", "f", " ", "n", "o", "t",
      " ", "i", "m", "p", "r", "o", "v", "i", "n", "g">>

\* A handler that calls nothing on the bus.
NoCall == [call |-> "none"]

CallPost(message_type, topic, content, priority) ==
    [call |-> "post", type |-> message_type, topic |-> topic, content |-> content,
     priority |-> priority]

CallRespond(question_id, response) ==
    [call |-> "respond_to_question", question_id |-> question_id,
     response |-> response]

\* str() of a list of agent ids: ['a', 'b'].
RECURSIVE JoinQuoted(_)
JoinQuoted(list) ==
    IF list = <<>> THEN <<>>
    ELSE <<"'">> \o AgentName[Head(list)] \o <<"'">>
         \o (IF Tail(list) = <<>> THEN <<>> ELSE <<",", " ">> \o JoinQuoted(Tail(list)))

StrOfList(list) == <<"[">> \o JoinQuoted(list) \o <<"]">>

\* TargetAgentsText reading the list from the pending question of the topic.
TargetAgentsOfQuestion(message) ==
    LET S == {k \in 1..Len(pending_questions) : QuestionTopic(k) = message.topic}
    IN IF S = {} THEN EmptyListText
       ELSE LET targets == pending_questions[Min(S)].target_agents
            IN IF targets = <<"a", "l", "l">> THEN targets ELSE StrOfList(targets)

\* str(message.get('target_agents', [])): the text the gated handlers search
\* for their own id.
TargetAgentsText(message) ==
    IF "target_agents" \in DOMAIN message
    THEN StrOfList(message.target_agents)
    ELSE EmptyListText

\* IntelligentLabAnalyzerAgent.handle_event
LabHandleEvent(topic, message) ==
    IF StartsWith(topic, QuestionPrefix) /\ Contains(message.content, LabAnalyzerName)
    THEN IF /\ Contains(Lower(message.content), Kidney)
            /\ Contains(Lower(message.content), Dosing)
         THEN CallRespond(topic, LabResponse)
         ELSE NoCall
    ELSE NoCall

\* IntelligentImageAnalyzerAgent.handle_event
ImageHandleEvent(topic, message) ==
    IF topic = SevereInfectionDetected
    THEN CallPost(RESPONSE, ReviewingForInfection, ReviewingText, HIGH)
    ELSE IF StartsWith(topic, QuestionPrefix)
    THEN IF /\ Contains(message.content, AdditionalTests)
            /\ Contains(TargetAgentsText(message), ImageAnalyzerName)
         THEN CallRespond(topic, ImageTestsResponse)
         ELSE NoCall
    ELSE NoCall

\* IntelligentRiskStratificationAgent.handle_event
RiskHandleEvent(topic, message) ==
    IF topic = PatientData THEN NoCall
    ELSE IF StartsWith(topic, CriticalPrefix) THEN NoCall
    ELSE IF topic = SepsisSuspected
    THEN CallPost(RESPONSE, SepsisProtocolInitiated, SepsisBundleText, CRITICAL)
    ELSE IF /\ StartsWith(topic, QuestionPrefix)
            /\ Contains(TargetAgentsText(message), RiskStratifierName)
    THEN IF Contains(message.content, AggressiveManagement)
         THEN CallRespond(topic, RiskResponse)
         ELSE NoCall
    ELSE NoCall

\* IntelligentClinicalDecisionAgent.handle_event
ClinicalHandleEvent(topic, message) ==
    IF topic = PatientData THEN NoCall
    ELSE IF topic = RiskAssessmentComplete THEN NoCall
    ELSE IF /\ StartsWith(topic, QuestionPrefix)
            /\ Contains(TargetAgentsText(message), ClinicalDecisionName)
    THEN IF Contains(message.content, Kidney) /\ Contains(message.content, Dosing)
         THEN CallRespond(topic, ClinicalDosingResponse)
         ELSE IF Contains(message.content, AdditionalTests)
         THEN CallRespond(topic, ClinicalTestsResponse)
         ELSE NoCall
    ELSE NoCall

\* The status text of the consensus builder's answer.
ConsensusStatus ==
    ConsensusStatusHead \o IntToStr(Cardinality(DOMAIN consensus_topics))
       \o ConsensusStatusTopics \o IntToStr(Len(active_alerts)) \o ConsensusStatusTail

\* IntelligentConsensusBuilder.handle_event
ConsensusHandleEvent(topic, message) ==
    IF EndsWith(topic, CompleteSuffix) THEN NoCall
    ELSE IF /\ StartsWith(topic, QuestionPrefix)
            /\ Contains(Lower(message.content), ConsensusWord)
    THEN CallRespond(topic, ConsensusStatus)
    ELSE NoCall

\* What the handle_event of agent_id calls on the bus for a message.
HandleEvent(agent_id, topic, message) ==
    CASE agent_id = "LabAnalyzer" -> LabHandleEvent(topic, message)
      [] agent_id = "ImageAnalyzer" -> ImageHandleEvent(topic, message)
      [] agent_id = "RiskStratifier" -> RiskHandleEvent(topic, message)
      [] agent_id = "ClinicalDecision" -> ClinicalHandleEvent(topic, message)
      [] agent_id = "ConsensusBuilder" -> ConsensusHandleEvent(topic, message)

\* The number of messages that the handlers of one call may add to it.
MaxChain == 2

\* post() called from a handle_event: DoPost, with room for the messages of a
\* chain of handlers.
HandlerPublish(agent_id, message_type, topic, content, priority, op, t, pq) ==
    /\ CanCall(agent_id)
    /\ Len(issued) < MaxPosts + MaxChain
    /\ \E t1 \in ReadClock(t) : \E t2 \in ReadClock(t1) :
          LET message == [id |-> MessageId(agent_id, t1), timestamp |-> t2,
                          agent_id |-> agent_id, type |-> message_type,
                          topic |-> topic, content |-> content,
                          priority |-> priority]
              log2 == LogAppend(conversation_log, message)
              f == [op |-> op, message |-> message, idx |-> Len(log2), pos |-> 0,
                    agent_id |-> None, callback |-> None, notified |-> {},
                    qidx |-> 0]
          IN \E r \in {Advance(stack, f, Append(deliveries, <<>>), pq)} :
             /\ conversation_log' = log2
             /\ knowledge_base' = KnowledgeAppend(knowledge_base, topic, message)
             /\ active_alerts' = AlertsAppend(active_alerts, message, priority)
             /\ now' = t2
             /\ stack' = r.stack
             /\ deliveries' = r.deliveries
             /\ returned' = r.returned
             /\ calls' = Append(calls, [agent_id |-> agent_id, type |-> message_type,
                                        topic |-> topic, content |-> content,
                                        priority |-> priority])
             /\ issued' = Append(issued, message.id)

\* The handle_event on top of the stack runs on: it makes its call on the bus
\* and, when the call has returned or when it makes none, it returns.
HandleEventStep ==
    /\ stack # <<>>
    /\ \E f \in {Last(stack)} :
       \E r \in {HandleEvent(f.agent_id, f.message.topic, f.message)} :
          IF returned # NoPublish \/ r.call = "none"
          THEN HandlerReturn
          ELSE IF r.call = "post"
          THEN /\ HandlerPublish(f.agent_id, r.type, r.topic, r.content, r.priority,
                                 "post", now, pending_questions)
               /\ UNCHANGED <<subscribers, pending_questions, agent_opinions,
                              consensus_topics, sessions, twin>>
          ELSE LET k == FindQuestion(pending_questions, r.question_id)
               IN IF k = 0
                  THEN HandlerReturn
                  ELSE \E t \in ReadClock(now) :
                         LET pq == [pending_questions EXCEPT ![k].responses =
                                       Append(@, [agent_id |-> f.agent_id,
                                                  response |-> r.response,
                                                  timestamp |-> t])]
                         IN /\ HandlerPublish(f.agent_id, RESPONSE, r.question_id,
                                              r.response, NORMAL,
                                              "respond_to_question", t, pq)
                            /\ pending_questions' = pq
                            /\ UNCHANGED <<subscribers, agent_opinions,
                                           consensus_topics, sessions, twin>>

\* --------------------------------------------------------------------- reads
\* get_knowledge(topic)
GetKnowledge(topic) ==
    IF topic \in DOMAIN knowledge_base THEN knowledge_base[topic] ELSE <<>>

\* GetLatestFinding reading knowledge[0].
GetFirstFinding(topic) ==
    LET knowledge == GetKnowledge(topic)
    IN IF knowledge # <<>> THEN Head(knowledge).content ELSE None

\* get_latest_finding(topic)
GetLatestFinding(topic) ==
    LET knowledge == GetKnowledge(topic)
    IN IF knowledge # <<>> THEN Last(knowledge).content ELSE None

\* has_alert(alert_type)
HasAlert(alert_type) ==
    \E i \in 1..Len(active_alerts) : active_alerts[i].topic = alert_type

\* get_agent_conversation(agent_id), agent_id = None for the whole log
GetAgentConversation(agent_id) ==
    IF agent_id # None
    THEN SelectSeq(conversation_log, LAMBDA msg : msg.agent_id = agent_id)
    ELSE conversation_log

\* ------------------------------------------------------------------ the inputs
TopicX == <<"x", "_", "1">>
TopicY == <<"y", "_", "2">>
Topics == {TopicX, TopicY}

PatExact == <<"x", "_", "1">>
PatPrefix == <<"x", "_", "*">>
PatSuffix == <<"*", "_", "1">>
PatternLists == {<<PatExact>>, <<PatPrefix, PatSuffix>>}

\* <<agent_id, event_patterns>>
SubscribeInputs == {<<"B", <<PatExact>>>>, <<"B", <<PatPrefix, PatSuffix>>>>,
                    <<"C", <<PatExact>>>>}

Callbacks == {"handle_event"}

\* The subscribers, and the calls made from outside any handler.  A handler
\* calls the bus under its own agent id.
SubscriberIds == {"B", "C"}

\* <<agent_id, message_type, topic, content, priority>>
CallerPosts == {<<"A", FINDING, TopicX, "c1", NORMAL>>,
                <<"B", ALERT, TopicX, "c2", CRITICAL>>}

HandlerPosts == {<<a, RESPONSE, TopicX, "c2", CRITICAL>> : a \in SubscriberIds}

PostInputs == IF stack = <<>> THEN CallerPosts ELSE HandlerPosts

Askers == IF stack = <<>> THEN {"A"} ELSE SubscriberIds

Responders == IF stack = <<>> THEN {"A"} ELSE SubscriberIds

\* <<agent_id, topic, opinion, confidence>>
OpinionInputs == {<<"A", TopicX, <<"Y", "e", "s">>, 8>>}

\* The statements of the consensus inputs: two spellings of one statement,
\* two statements of one category, and two statements that differ only after
\* the first OpinionKeyLen characters.
SepsisCap == <<"S">> \o Tail(Sepsis)
ViralPneumonia == <<"v", "i", "r", "a", "l", " ">> \o Pneumonia
LongPrefix == [i \in 1..OpinionKeyLen |-> "a"]
LongX == LongPrefix \o <<"x">>
LongY == LongPrefix \o <<"y">>

\* <<agent_id, topic, opinion, confidence>>, the confidence in tenths.  The
\* sums of these confidences within a group are exact in binary floating
\* point, so that they compare as the tenths do.
ConsensusInputs == {<<"A", TopicX, Pneumonia, 8>>,
                    <<"A", TopicX, LongX, 5>>,
                    <<"B", TopicX, Pneumonia, 7>>,
                    <<"B", TopicX, LongY, 5>>,
                    <<"C", TopicX, Sepsis, 9>>,
                    <<"D", TopicX, SepsisCap, 6>>,
                    <<"D", TopicX, ViralPneumonia, 6>>,
                    <<"C", TopicY, Sepsis, 9>>}

\* The inputs of the alert registry: alerts of every priority below CRITICAL
\* on one topic, a CRITICAL finding on another, and a subscriber of each.
PatY == <<"y", "_", "*">>
AlertSubscribeInputs == {<<"B", <<PatExact>>>>, <<"C", <<PatY>>>>}

AlertPosts == {<<"A", ALERT, TopicX, "c1", HIGH>>,
               <<"A", ALERT, TopicX, "c1", NORMAL>>,
               <<"A", ALERT, TopicX, "c1", LOW>>,
               <<"B", FINDING, TopicY, "c2", CRITICAL>>}

\* The inputs of a session that fills every store: a CRITICAL finding, a
\* question, three opinions on one topic, and a subscriber registered with
\* either of two handlers.
SessionCallbacks == {"handle_event", "handle_alert"}

SessionPosts == {<<"A", FINDING, TopicX, "c1", CRITICAL>>}

SessionOpinions == {<<a, TopicX, Sepsis, 9>> : a \in {"A", "B", "C"}}

\* The inputs of the pattern matcher: patterns with no wildcard or with one
\* wildcard at an end, and topics that match them at the start, at the end, in
\* the middle or not at all.
LabStar == <<"l", "a", "b", "_", "*">>
StarBar == <<"*", "_", "b", "a", "r">>
LabX == <<"l", "a", "b", "_", "x">>
LabComplete == <<"l", "a", "b", "_", "c", "o", "m", "p", "l", "e", "t", "e">>
XLabComplete == <<"x">> \o LabComplete
FooBar == <<"f", "o", "o", "_", "b", "a", "r">>
BarFoo == <<"b", "a", "r", "_", "f", "o", "o">>
FooBarX == FooBar \o <<"x">>

\* Patterns with wildcards at both ends, in the middle, and at the start and
\* in the middle, and topics that hold a literal wildcard.
StarLabStar == <<"*", "l", "a", "b", "*">>
LaStarB == <<"l", "a", "*", "b">>
StarAStarB == <<"*", "a", "*", "b">>
StarLabX == <<"*", "l", "a", "b", "_", "x">>
XAStarB == <<"x", "a", "*", "b">>

MatchPatterns == {LabStar, StarBar, LabX, <<Star>>, <<>>,
                  StarLabStar, LaStarB, StarAStarB}

MatchTopics == {LabComplete, LabX, XLabComplete, FooBar, BarFoo, FooBarX,
                LabStar, <<"l", "a", "b", "_">>, <<"_", "b", "a", "r">>, <<>>,
                StarLabX, LaStarB, XAStarB}

\* The inputs of the questions: two question texts, one of them for all
\* agents, a subscriber of every question topic, and responses to the ordinals
\* 0, 1 and 2 and to a topic of another form.
PatQuestion == QuestionPrefix \o <<Star>>

\* <<question, target_agents>>
QuestionInputs == {<<"q1", <<>>>>, <<"q2", <<"B">>>>}

ResponseIds == {QuestionTopic(0), QuestionTopic(1), QuestionTopic(2), TopicX}

HandlerErrors == {"TypeError"}

QuestionIds == {QuestionTopic(1)}

\* The inputs of the orchestrator: two analyze_patient() calls, each naming
\* its patient.
Runs == {"run1", "run2"}

\* No analyze_patient() call has started.
NoSessions == [r \in Runs |-> "idle"]

\* ------------------------------------------------------------ specification
Init ==
    /\ subscribers = <<>>
    /\ knowledge_base = EmptyDict
    /\ conversation_log = <<>>
    /\ active_alerts = <<>>
    /\ pending_questions = <<>>
    /\ agent_opinions = EmptyDict
    /\ consensus_topics = EmptyDict
    /\ stack = <<>>
    /\ now = 0
    /\ returned = NoPublish
    /\ deliveries = <<>>
    /\ calls = <<>>
    /\ issued = <<>>
    /\ sessions = NoSessions
    /\ twin = NoTwin

Next ==
    \/ \E i \in SubscribeInputs, cb \in Callbacks : Subscribe(i[1], i[2], cb)
    \/ \E i \in PostInputs : Post(i[1], i[2], i[3], i[4], i[5])
    \/ \E a \in Askers : AskQuestion(a, "q1", <<>>)
    \/ \E a \in Responders, q \in QuestionIds : RespondToQuestion(a, q, "r1")
    \/ HandlerReturn
    \/ \E e \in HandlerErrors : HandlerRaise(e)
    \/ Clear

Spec == Init /\ [][Next]_vars

\* The whole interface, post_opinion included, with one subscriber.
NextAll ==
    \/ \E pl \in PatternLists, cb \in Callbacks : Subscribe("B", pl, cb)
    \/ \E i \in PostInputs : Post(i[1], i[2], i[3], i[4], i[5])
    \/ \E a \in Askers : AskQuestion(a, "q1", <<>>)
    \/ \E a \in Responders, q \in QuestionIds : RespondToQuestion(a, q, "r1")
    \/ \E i \in OpinionInputs : PostOpinion(i[1], i[2], i[3], i[4])
    \/ HandlerReturn
    \/ \E e \in HandlerErrors : HandlerRaise(e)
    \/ Clear

SpecAll == Init /\ [][NextAll]_vars

\* The opinion ledger on its own: opinions of four agents, and session resets.
NextOpinion ==
    \/ \E i \in ConsensusInputs : PostOpinion(i[1], i[2], i[3], i[4])
    \/ Clear

SpecOpinion == Init /\ [][NextOpinion]_vars

\* The alert registry: publishes of every priority, their handlers, and resets.
NextAlert ==
    \/ \E i \in AlertSubscribeInputs, cb \in Callbacks : Subscribe(i[1], i[2], cb)
    \/ \E i \in AlertPosts : Post(i[1], i[2], i[3], i[4], i[5])
    \/ HandlerReturn
    \/ Clear

SpecAlert == Init /\ [][NextAlert]_vars

\* A session of one subscriber over the whole interface, and its reset.
NextSession ==
    \/ \E cb \in SessionCallbacks : Subscribe("B", <<PatExact>>, cb)
    \/ \E i \in SessionPosts : Post(i[1], i[2], i[3], i[4], i[5])
    \/ \E a \in Askers : AskQuestion(a, "q1", <<>>)
    \/ \E a \in Responders, q \in QuestionIds : RespondToQuestion(a, q, "r1")
    \/ \E i \in OpinionInputs : PostOpinion(i[1], i[2], i[3], i[4])
    \/ HandlerReturn
    \/ Clear

SpecSession == Init /\ [][NextSession]_vars

\* The stores that clear() resets, filled without subscribers, and the reset.
NextReset ==
    \/ \E i \in SessionPosts : Post(i[1], i[2], i[3], i[4], i[5])
    \/ \E a \in Askers : AskQuestion(a, "q1", <<>>)
    \/ \E i \in SessionOpinions : PostOpinion(i[1], i[2], i[3], i[4])
    \/ Clear

SpecReset == Init /\ [][NextReset]_vars

\* The pattern matcher at work: subscriber B holds one pattern of
\* MatchPatterns, and A publishes on the topics of MatchTopics.
InitMatch ==
    /\ subscribers \in {AddSubscriptions(<<>>, "B", <<p>>, "handle_event") :
                            p \in MatchPatterns}
    /\ knowledge_base = EmptyDict
    /\ conversation_log = <<>>
    /\ active_alerts = <<>>
    /\ pending_questions = <<>>
    /\ agent_opinions = EmptyDict
    /\ consensus_topics = EmptyDict
    /\ stack = <<>>
    /\ now = 0
    /\ returned = NoPublish
    /\ deliveries = <<>>
    /\ calls = <<>>
    /\ issued = <<>>
    /\ sessions = NoSessions
    /\ twin = NoTwin

NextMatch ==
    \/ \E t \in MatchTopics : Post("A", FINDING, t, "c1", NORMAL)
    \/ HandlerReturn

SpecMatch == InitMatch /\ [][NextMatch]_vars

\* Questions and responses, asked from outside and from the handler of a
\* question, and resets.
NextQuestion ==
    \/ \E cb \in Callbacks : Subscribe("B", <<PatQuestion>>, cb)
    \/ \E a \in Askers, i \in QuestionInputs : AskQuestion(a, i[1], i[2])
    \/ \E a \in Responders, q \in ResponseIds : RespondToQuestion(a, q, "r1")
    \/ HandlerReturn
    \/ Clear

SpecQuestion == Init /\ [][NextQuestion]_vars

\* The inputs of a bus in use while opinions arrive: opinions of two callers on
\* two topics, and the opinion the subscriber states from its handler.
FrameOpinions ==
    IF stack = <<>>
    THEN {<<"A", TopicX, Sepsis, 9>>, <<"C", TopicX, Pneumonia, 7>>,
          <<"A", TopicY, Sepsis, 9>>}
    ELSE {<<"B", TopicX, Sepsis, 8>>}

\* Opinions stated on a bus that has a subscriber, messages and alerts.
NextFrame ==
    \/ Subscribe("B", <<PatExact>>, "handle_event")
    \/ \E i \in SessionPosts : Post(i[1], i[2], i[3], i[4], i[5])
    \/ \E i \in FrameOpinions : PostOpinion(i[1], i[2], i[3], i[4])
    \/ HandlerReturn

SpecFrame == Init /\ [][NextFrame]_vars

\* The inputs of the two buses: the posts of a caller and of the subscribers,
\* and for each post the priority it has on the first and on the second bus.
TwinPosts ==
    IF stack = <<>> THEN {<<"A", FINDING, TopicX, "c1">>}
    ELSE {<<a, RESPONSE, TopicX, "c2">> : a \in SubscriberIds}

PriorityPairs == {<<HIGH, NORMAL>>, <<NORMAL, LOW>>, <<LOW, HIGH>>,
                  <<CRITICAL, CRITICAL>>}

\* Two buses with the same subscribers, given the same calls.
NextTwin ==
    \/ \E a \in SubscriberIds : TwinSubscribe(a, <<PatExact>>, "handle_event")
    \/ \E i \in TwinPosts, p \in PriorityPairs :
          TwinPost(i[1], i[2], i[3], i[4], p[1], p[2])
    \/ TwinHandlerReturn

SpecTwin == Init /\ [][NextTwin]_vars

KidneyQuestion ==
    <<"C", "l", "i", "n", "i", "c", "a", "l", "D", "e", "c", "i", "s", "i",
      "o", "n", " ", "a", "g", "e", "n", "t", ",", " ", "p", "a", "t", "i",
      "e", "n", "t", " ", "h", "a", "s", " ", "k", "i", "d", "n", "e", "y",
      " ", "d", "y", "s", "f", "u", "n", "c", "t", "i", "o", "n", ".", " ",
      "S", "h", "o", "u", "l", "d", " ", "w", "e", " ", "a", "d", "j", "u",
      "s", "t", " ", "a", "n", "t", "i", "b", "i", "o", "t", "i", "c", " ",
      "d", "o", "s", "i", "n", "g", "?">>

RiskQuestion ==
    <<"M", "y", " ", "r", "i", "s", "k", " ", "s", "c", "o", "r", "e", "s",
      " ", "i", "n", "d", "i", "c", "a", "t", "e", " ", "H", "I", "G", "H",
      "/", "C", "R", "I", "T", "I", "C", "A", "L", " ", "r", "i", "s", "k",
      ",", " ", "b", "u", "t", " ", "l", "a", "b", "s", " ", "d", "o", "n",
      "'", "t", " ", "s", "h", "o", "w", " ", "c", "r", "i", "t", "i", "c",
      "a", "l", " ", "v", "a", "l", "u", "e", "s", ".", " ", "S", "h", "o",
      "u", "l", "d", " ", "w", "e", " ", "s", "t", "i", "l", "l", " ", "p",
      "r", "o", "c", "e", "e", "d", " ", "w", "i", "t", "h", " ", "a", "g",
      "g", "r", "e", "s", "s", "i", "v", "e", " ", "m", "a", "n", "a", "g",
      "e", "m", "e", "n", "t", " ", "g", "i", "v", "e", "n", " ", "t", "h",
      "e", " ", "c", "l", "i", "n", "i", "c", "a", "l", " ", "s", "c", "o",
      "r", "e", "s", "?">>

TestsQuestion ==
    <<"G", "i", "v", "e", "n", " ", "t", "h", "e", " ", "i", "m", "a", "g",
      "i", "n", "g", " ", "s", "h", "o", "w", "s", " ", "p", "n", "e", "u",
      "m", "o", "n", "i", "a", ",", " ", "b", "u", "t", " ", "d", "i", "f",
      "f", "e", "r", "e", "n", "t", "i", "a", "l", " ", "i", "n", "c", "l",
      "u", "d", "e", "s", " ", "b", "r", "o", "n", "c", "h", "i", "t", "i",
      "s", ",", " ", "w", "h", "a", "t", " ", "a", "d", "d", "i", "t", "i",
      "o", "n", "a", "l", " ", "t", "e", "s", "t", "s", " ", "w", "o", "u",
      "l", "d", " ", "h", "e", "l", "p", " ", "n", "a", "r", "r", "o", "w",
      " ", "t", "h", "e", " ", "d", "i", "a", "g", "n", "o", "s", "i", "s",
      "?">>

AllInOneQuestion ==
    <<"L", "a", "b", "A", "n", "a", "l", "y", "z", "e", "r", ":", " ", "k",
      "i", "d", "n", "e", "y", " ", "d", "o", "s", "i", "n", "g", ",", " ",
      "a", "d", "d", "i", "t", "i", "o", "n", "a", "l", " ", "t", "e", "s",
      "t", "s", ",", " ", "a", "g", "g", "r", "e", "s", "s", "i", "v", "e",
      " ", "m", "a", "n", "a", "g", "e", "m", "e", "n", "t", ",", " ", "c",
      "o", "n", "s", "e", "n", "s", "u", "s", "?">>

PrimaryDiagnosis ==
    <<"p", "r", "i", "m", "a", "r", "y", "_", "d", "i", "a", "g", "n", "o",
      "s", "i", "s">>

TreatmentPlan ==
    <<"t", "r", "e", "a", "t", "m", "e", "n", "t", "_", "p", "l", "a", "n">>

DispositionRecommendation ==
    <<"d", "i", "s", "p", "o", "s", "i", "t", "i", "o", "n", "_", "r", "e",
      "c", "o", "m", "m", "e", "n", "d", "a", "t", "i", "o", "n">>

FinalConsensus ==
    <<"f", "i", "n", "a", "l", "_", "c", "o", "n", "s", "e", "n", "s", "u",
      "s">>

\* The inputs of the agents' pipeline: the posts that a handler reacts to and
\* one that several patterns of one subscriber match, the questions of the
\* agents and one that names every word a handler looks for, and the
\* opinions.  <<agent_id, question, target_agents>>.
Finding == <<"f", "1">>

AgentPosts == {<<"LabAnalyzer", ALERT, SepsisSuspected, Finding, CRITICAL>>,
               <<"LabAnalyzer", FINDING, SevereInfectionDetected, Finding, HIGH>>,
               <<"RiskStratifier", FINDING, RiskAssessmentComplete, Finding, HIGH>>}

AgentQuestions ==
    {<<"LabAnalyzer", KidneyQuestion, <<"ClinicalDecision">>>>,
     <<"RiskStratifier", RiskQuestion, <<"LabAnalyzer", "ClinicalDecision">>>>,
     <<"ImageAnalyzer", TestsQuestion, <<"LabAnalyzer", "ClinicalDecision">>>>,
     <<"ClinicalDecision", AllInOneQuestion,
       <<"LabAnalyzer", "ImageAnalyzer", "RiskStratifier">>>>}

\* The five agents registered, and nothing published.
InitAgents ==
    /\ subscribers = AgentRegistry
    /\ knowledge_base = EmptyDict
    /\ conversation_log = <<>>
    /\ active_alerts = <<>>
    /\ pending_questions = <<>>
    /\ agent_opinions = EmptyDict
    /\ consensus_topics = EmptyDict
    /\ stack = <<>>
    /\ now = 0
    /\ returned = NoPublish
    /\ deliveries = <<>>
    /\ calls = <<>>
    /\ issued = <<>>
    /\ sessions = NoSessions
    /\ twin = NoTwin

\* The calls the agents make from their analyses, and their handlers.
NextAgents ==
    \/ \E i \in AgentPosts : stack = <<>> /\ Post(i[1], i[2], i[3], i[4], i[5])
    \/ \E i \in AgentQuestions : stack = <<>> /\ AskQuestion(i[1], i[2], i[3])
    \/ HandleEventStep

SpecAgents == InitAgents /\ [][NextAgents]_vars

\* The event loop runs a handler that can go on.
SpecAgentsLive == SpecAgents /\ WF_vars(HandleEventStep)

\* The post_opinion calls of the agents: <<agent_id, topic, opinion,
\* confidence>>.  The statements and the confidences of the image and clinical
\* agents are data of the analysis; the risk agent states 0.85, which lies
\* between two tenths, and both are drawn; the consensus builder states 0.9.
PipelineOpinions ==
    {<<"ImageAnalyzer", PrimaryDiagnosis, Pneumonia, 7>>,
     <<"ImageAnalyzer", PrimaryDiagnosis, Pneumonia, 9>>,
     <<"ClinicalDecision", PrimaryDiagnosis, Pneumonia, 9>>,
     <<"ClinicalDecision", PrimaryDiagnosis, Sepsis, 7>>,
     <<"ClinicalDecision", TreatmentPlan, Sepsis, 7>>,
     <<"RiskStratifier", DispositionRecommendation, HeartFailure, 8>>,
     <<"RiskStratifier", DispositionRecommendation, HeartFailure, 9>>,
     <<"ConsensusBuilder", FinalConsensus, Pneumonia, 9>>}

\* The opinions of the orchestrated pipeline: the agents state them from their
\* analysis steps, in any order and any number of times, and every analysis
\* request starts with blackboard.clear().
NextPipeline ==
    \/ \E i \in PipelineOpinions : stack = <<>> /\ PostOpinion(i[1], i[2], i[3], i[4])
    \/ Clear

SpecPipeline == InitAgents /\ [][NextPipeline]_vars

\* <<agent_id, topic, opinion, confidence>>, the confidence in tenths: the ends
\* of the range from 0 to 1, values inside it, and one on either side of it.
ConfidenceInputs == {<<"A", TopicX, Pneumonia, 10>>,
                     <<"A", TopicX, Sepsis, 0>>,
                     <<"B", TopicX, Pneumonia, 10>>,
                     <<"B", TopicX, Sepsis, 12>>,
                     <<"C", TopicX, Sepsis, 5>>,
                     <<"C", TopicX, SepsisCap, 0 - 2>>,
                     <<"D", TopicX, Pneumonia, 0>>}

\* The opinion ledger with confidences at and beyond the ends of their range.
NextConfidence ==
    \/ \E i \in ConfidenceInputs : PostOpinion(i[1], i[2], i[3], i[4])
    \/ Clear

SpecConfidence == Init /\ [][NextConfidence]_vars

\* The subscribe() calls behind a registry of three or four entries:
\* <<agent_id, event_patterns, callback>>, a second handler telling apart the
\* subscriptions of one agent.
OrderSubscribes == {<<"B", <<PatPrefix>>, "handle_event">>,
                    <<"C", <<PatSuffix>>, "handle_event">>,
                    <<"C", <<PatPrefix>>, "handle_other">>,
                    <<"B", <<PatSuffix, PatPrefix>>, "handle_other">>}

\* The registries that three subscribe() calls leave.
OrderRegistries ==
    {AddSubscriptions(
        AddSubscriptions(
           AddSubscriptions(<<>>, a[1], a[2], a[3]), b[1], b[2], b[3]),
        c[1], c[2], c[3]) : a \in OrderSubscribes, b \in OrderSubscribes,
                            c \in OrderSubscribes}

\* The agents have subscribed, and nothing is published.
InitOrder ==
    /\ subscribers \in OrderRegistries
    /\ knowledge_base = EmptyDict
    /\ conversation_log = <<>>
    /\ active_alerts = <<>>
    /\ pending_questions = <<>>
    /\ agent_opinions = EmptyDict
    /\ consensus_topics = EmptyDict
    /\ stack = <<>>
    /\ now = 0
    /\ deliveries = <<>>
    /\ calls = <<>>
    /\ issued = <<>>
    /\ returned = NoPublish
    /\ sessions = NoSessions
    /\ twin = NoTwin

\* One publish on a registry that no longer changes, with handlers that
\* return or raise.
NextOrder ==
    \/ \E i \in CallerPosts :
          conversation_log = <<>> /\ Post(i[1], i[2], i[3], i[4], i[5])
    \/ HandlerReturn
    \/ \E e \in HandlerErrors : HandlerRaise(e)

SpecOrder == InitOrder /\ [][NextOrder]_vars

\* Two analysis requests served by one process on the shared blackboard, with
\* a subscriber of the patient record.
NextRuns ==
    \/ \E cb \in Callbacks : Subscribe("B", <<PatientData>>, cb)
    \/ \E run \in Runs : AnalyzeStart(run)
    \/ \E run \in Runs, p \in {NORMAL, CRITICAL} : AnalyzeLoad(run, p)
    \/ HandlerReturn
    \/ \E run \in Runs : AnalyzeCompile(run)

SpecRuns == Init /\ [][NextRuns]_vars

\* ------------------------------------------------------------- vocabulary
\* The subscribers post() owes a notification of message m: those other than
\* the publisher that hold a pattern matching the topic.
Recipients(m) ==
    {e.agent_id : e \in {x \in {Entries(subscribers)[p] : p \in 1..NumEntries(subscribers)} :
                            MatchesPattern(m.topic, x.pattern) /\ x.agent_id # m.agent_id}}

OnStack(n) == \E k \in 1..Len(stack) : stack[k].idx = n

\* The last step completed a post, ask_question or respond_to_question that
\* published a message.
PublishReturned == returned.message # <<>>

AllTopics == Topics \cup QuestionIds

\* The positions of the log entries on topic t.
LogOn(t) == {i \in 1..Len(conversation_log) : conversation_log[i].topic = t}

Max(S) == CHOOSE x \in S : \A y \in S : y <= x

\* ------------------------------------------------------------------ claims

\* C1: no handler is ever invoked for a message by the subscriber that
\* published it: in every delivery record the subscriber's agent id differs
\* from the publisher of the message handed to the handler and of the log
\* entry it was invoked for.
C1_PublisherNeverNotified ==
    \A n \in 1..Len(deliveries) : \A i \in 1..Len(deliveries[n]) :
        /\ deliveries[n][i].agent_id # deliveries[n][i].message.agent_id
        /\ deliveries[n][i].agent_id # conversation_log[n].agent_id

\* A publish has returned whose publisher holds a pattern matching the topic,
\* and another subscriber was notified of it.
C1_Witness ==
    /\ PublishReturned
    /\ \E p \in 1..NumEntries(subscribers) :
          /\ Entries(subscribers)[p].agent_id = returned.message[1].agent_id
          /\ MatchesPattern(returned.message[1].topic, Entries(subscribers)[p].pattern)
    /\ deliveries[returned.idx] # <<>>

\* C2: within one post call each subscriber id has its handler invoked at most
\* once for the message, whether or not an invocation raised.
C2_AtMostOncePerPost ==
    \A n \in 1..Len(deliveries) : \A i, j \in 1..Len(deliveries[n]) :
        i # j => deliveries[n][i].agent_id # deliveries[n][j].agent_id

C4_StrictOrder ==
    \A n \in 1..(Len(deliveries) - 1) :
        deliveries[n + 1] # <<>> =>
            /\ ~OnStack(n)
            /\ \A i \in 1..Len(deliveries[n]) : deliveries[n][i].outcome # "running"

\* C4, amended: handler invocations for consecutive log entries N and N+1
\* interleave only by nesting.  When a handler invocation for N+1 has begun,
\* either the dispatch of N has ended with every invocation for N completed,
\* or the dispatch of N is still in progress and N+1 was published by a
\* handler run for N; then the dispatch of N+1 is either in progress directly
\* above the suspended handler that published it, or has ended with every
\* invocation for N+1 completed, and at most the last invocation begun for N
\* is not completed.
C4_NestedOrder ==
    \A n \in 1..(Len(deliveries) - 1) :
        deliveries[n + 1] # <<>> =>
            \/ /\ ~OnStack(n)
               /\ \A i \in 1..Len(deliveries[n]) : deliveries[n][i].outcome # "running"
            \/ \E k \in 1..Len(stack) :
                  /\ stack[k].idx = n
                  /\ \E i \in 1..Len(deliveries[n]) :
                        deliveries[n][i].agent_id = conversation_log[n + 1].agent_id
                  /\ \A i \in 1..Len(deliveries[n]) :
                        deliveries[n][i].outcome = "running" <=> i = Len(deliveries[n])
                  /\ OnStack(n + 1) =>
                        /\ k < Len(stack)
                        /\ stack[k + 1].idx = n + 1
                        /\ conversation_log[n + 1].agent_id = stack[k].agent_id
                  /\ ~OnStack(n + 1) =>
                        \A i \in 1..Len(deliveries[n + 1]) :
                            deliveries[n + 1][i].outcome # "running"

\* A handler being run for message 1 has published message 2, whose delivery
\* has begun and ended, and is about to go on.
C4_Witness ==
    /\ Len(stack) = 1
    /\ stack[1].idx = 1
    /\ Len(deliveries) = 2
    /\ deliveries[2] # <<>>
    /\ \A i \in 1..Len(deliveries[2]) : deliveries[2][i].outcome # "running"

\* C5: when a publish call returns, every subscriber other than the publisher
\* that holds a pattern matching the topic has had its handler invoked for
\* the message, with the topic and the message as arguments, and the
\* invocation has ended (normally or with a caught failure).
C5_AllRecipientsNotified ==
    (PublishReturned /\ ~returned.raised) =>
        LET m == returned.message[1]
            d == deliveries[returned.idx]
        IN \A s \in Recipients(m) :
              \E i \in 1..Len(d) :
                 /\ d[i].agent_id = s
                 /\ d[i].outcome \in {"ok", "raised"}
                 /\ d[i].topic = m.topic
                 /\ d[i].message = m

\* A publish has returned that owed two subscribers a notification, one of
\* which failed.
C5_Witness ==
    /\ PublishReturned
    /\ Cardinality(Recipients(returned.message[1])) >= 2
    /\ \E i \in 1..Len(deliveries[returned.idx]) :
          deliveries[returned.idx][i].outcome = "raised"

\* C6: the conversation log holds exactly one entry per publish call started
\* since the last clear, in the order in which the calls were started.
C6_LogIsCallHistory ==
    /\ Len(conversation_log) = Len(calls)
    /\ \A k \in 1..Len(calls) :
          /\ conversation_log[k].agent_id = calls[k].agent_id
          /\ conversation_log[k].type = calls[k].type
          /\ conversation_log[k].topic = calls[k].topic
          /\ conversation_log[k].content = calls[k].content
          /\ conversation_log[k].priority = calls[k].priority

\* Two different publishes are in the log, the second one made from a handler
\* that was being run for the first.
C6_Witness ==
    /\ Len(conversation_log) = 2
    /\ conversation_log[1].agent_id # conversation_log[2].agent_id
    /\ conversation_log[1].content # conversation_log[2].content
    /\ OnStack(1)
    /\ ~OnStack(2)

\* C7: get_latest_finding(t) is the payload of the most recent publish on
\* exactly t since the last clear, and None when there is none.
C7_LatestFinding ==
    \A t \in AllTopics :
        GetLatestFinding(t) =
            IF LogOn(t) = {} THEN None ELSE conversation_log[Max(LogOn(t))].content

\* Two publishes with different payloads were made on one topic, and another
\* topic has none.
C7_Witness ==
    /\ \E t \in AllTopics :
          /\ Cardinality(LogOn(t)) >= 2
          /\ conversation_log[Min(LogOn(t))].content # conversation_log[Max(LogOn(t))].content
    /\ \E t \in AllTopics : LogOn(t) = {} /\ GetLatestFinding(t) = None

\* C8: every step other than clear leaves the previous conversation log and
\* every previous topic history as prefixes of the new ones.
C8_AppendOnly ==
    [][Clear \/ (/\ IsPrefix(conversation_log, conversation_log')
                 /\ \A t \in DOMAIN knowledge_base :
                       /\ t \in DOMAIN knowledge_base'
                       /\ IsPrefix(knowledge_base[t], knowledge_base'[t]))]_vars

\* A topic history and the log hold two messages and an opinion was posted.
C8_Witness ==
    /\ Len(conversation_log) >= 2
    /\ \E t \in DOMAIN knowledge_base : Len(knowledge_base[t]) >= 2
    /\ agent_opinions # EmptyDict
    /\ subscribers # <<>>

\* C9: no two messages published within the process lifetime carry the same
\* id.
C9_UniqueIds ==
    \A i, j \in 1..Len(issued) : i # j => issued[i] # issued[j]

\* C10 as claimed: post returns the message it constructed, which is the
\* entry it added to the conversation log.
C10_ReturnsMessage ==
    (returned.op = "post" /\ ~returned.raised) =>
        /\ returned.value = returned.message
        /\ conversation_log[returned.idx] = returned.message[1]

\* C10, amended: post returns None; the message it constructed is the entry
\* it added to the conversation log and the newest entry it added to the
\* history of its topic, and carries the id post generated.
C10_ReturnsNone ==
    (returned.op = "post" /\ ~returned.raised) =>
        /\ returned.value = <<>>
        /\ conversation_log[returned.idx] = returned.message[1]
        /\ \E i \in 1..Len(GetKnowledge(returned.message[1].topic)) :
              GetKnowledge(returned.message[1].topic)[i] = returned.message[1]
        /\ issued[Len(issued) - Len(conversation_log) + returned.idx]
              = returned.message[1].id

\* A post has returned after notifying a subscriber.
C10_Witness ==
    /\ returned.op = "post"
    /\ ~returned.raised
    /\ deliveries[returned.idx] # <<>>


\* ----------------------------------------------- vocabulary of the opinions
\* The opinions on topic t, in the ledger's insertion order.
Ledger(t) == IF t \in DOMAIN agent_opinions THEN agent_opinions[t] ELSE <<>>

\* The distinct agents that have an opinion on topic t.
OpinionAgents(t) == {Ledger(t)[i].agent_id : i \in 1..Len(Ledger(t))}

HasConsensus(t) == t \in DOMAIN consensus_topics

\* C11: the opinion ledger holds at most one entry per (topic, agent) pair in
\* every reachable state, and a post_opinion by an agent that already has an
\* entry on the topic leaves the number of entries of the topic unchanged and
\* puts the new statement and confidence in that agent's entry.
C11_OneEntryPerAgent ==
    /\ [](\A t \in Topics : \A i, j \in 1..Len(Ledger(t)) :
             Ledger(t)[i].agent_id = Ledger(t)[j].agent_id => i = j)
    /\ [][\A p \in ConsensusInputs :
             (p[1] \in OpinionAgents(p[2]) /\ PostOpinion(p[1], p[2], p[3], p[4]))
             => /\ Len(agent_opinions'[p[2]]) = Len(agent_opinions[p[2]])
                /\ \E i \in 1..Len(agent_opinions'[p[2]]) :
                      /\ agent_opinions'[p[2]][i].agent_id = p[1]
                      /\ agent_opinions'[p[2]][i].opinion = p[3]
                      /\ agent_opinions'[p[2]][i].confidence = p[4]]_vars

\* An agent has overwritten its opinion: its entry is later than the entry of
\* an agent that comes after it in the ledger.
C11_Witness ==
    \E t \in Topics : \E i, j \in 1..Len(Ledger(t)) :
        /\ i < j
        /\ Ledger(t)[i].timestamp > Ledger(t)[j].timestamp

\* C12: in every reachable state a topic has a consensus record exactly when
\* at least ConsensusThreshold distinct agents have an opinion on it.
C12_ConsensusIffThreeAgents ==
    \A t \in Topics :
        HasConsensus(t) <=> Cardinality(OpinionAgents(t)) >= ConsensusThreshold

\* The third distinct agent has just given its opinion on a topic, which has
\* a record, while another topic has an opinion and no record.
C12_Witness ==
    \E t, u \in Topics :
        /\ Cardinality(OpinionAgents(t)) = ConsensusThreshold
        /\ HasConsensus(t)
        /\ Cardinality(OpinionAgents(u)) = 1
        /\ ~HasConsensus(u)

\* The positions in the ledger of topic t of the opinions with key k.
GroupOf(t, k) == {i \in 1..Len(Ledger(t)) : OpinionKey(Ledger(t)[i].opinion) = k}

\* The keys of the opinions on topic t.
KeysOf(t) == {OpinionKey(Ledger(t)[i].opinion) : i \in 1..Len(Ledger(t))}

\* The sum of the confidences, in tenths, of the opinions at positions S.
RECURSIVE SumAt(_, _)
SumAt(t, S) ==
    IF S = {} THEN 0
    ELSE LET i == CHOOSE x \in S : TRUE
         IN Ledger(t)[i].confidence + SumAt(t, S \ {i})

GroupSum(t, k) == SumAt(t, GroupOf(t, k))

\* The position of the first member of the group with key k.
FirstMember(t, k) == CHOOSE i \in GroupOf(t, k) : \A j \in GroupOf(t, k) : i <= j

\* C13: the winning group of a consensus record has the highest sum of member
\* confidences, and every other group with the same sum was formed later: its
\* first member comes later in the ledger's insertion order.
C13_HighestSumEarliestGroup ==
    \A t \in Topics : HasConsensus(t) =>
        LET w == consensus_topics[t].consensus
        IN /\ w \in KeysOf(t)
           /\ \A k \in KeysOf(t) :
                 /\ GroupSum(t, k) <= GroupSum(t, w)
                 /\ (k # w /\ GroupSum(t, k) = GroupSum(t, w))
                    => FirstMember(t, w) < FirstMember(t, k)

\* Two groups tie for the highest sum, and the winner is the one formed first.
C13_Witness ==
    \E t \in Topics :
        /\ HasConsensus(t)
        /\ \E k \in KeysOf(t) :
              /\ k # consensus_topics[t].consensus
              /\ GroupSum(t, k) = GroupSum(t, consensus_topics[t].consensus)
              /\ FirstMember(t, consensus_topics[t].consensus) < FirstMember(t, k)

\* The agents at the positions S of the ledger of topic t, in ledger order.
RECURSIVE AgentsAt(_, _)
AgentsAt(t, S) ==
    IF S = {} THEN <<>>
    ELSE LET i == CHOOSE x \in S : \A y \in S : y <= x
         IN Append(AgentsAt(t, S \ {i}), Ledger(t)[i].agent_id)

\* The opinions on topic t are those of the example: A and B say pneumonia
\* with 0.8 and 0.7, C says sepsis with 0.9.
ExampleLedger(t) ==
    /\ Len(Ledger(t)) = 3
    /\ \A i \in 1..3 :
          /\ Ledger(t)[i].agent_id = <<"A", "B", "C">>[i]
          /\ Ledger(t)[i].opinion = <<Pneumonia, Pneumonia, Sepsis>>[i]
          /\ Ledger(t)[i].confidence = <<8, 7, 9>>[i]

\* C14: a consensus record's confidence is the sum of the confidences of the
\* winning group over the number of opinions on the topic, its supporting
\* agents are the members of the winning group, and its dissenting count is
\* the number of groups minus one; the opinions of the example give the key
\* pneumonia, the supporters A and B, the confidence 1.5/3 and the count 1.
C14_ConfidenceOverAllOpinions ==
    \A t \in Topics : HasConsensus(t) =>
        LET r == consensus_topics[t]
        IN /\ r.confidence = [num |-> GroupSum(t, r.consensus), den |-> Len(Ledger(t))]
           /\ r.supporting_agents = AgentsAt(t, GroupOf(t, r.consensus))
           /\ r.dissenting_opinions = Cardinality(KeysOf(t)) - 1
           /\ ExampleLedger(t) =>
                 /\ r.consensus = Pneumonia
                 /\ r.supporting_agents = <<"A", "B">>
                 /\ r.confidence = [num |-> 15, den |-> 3]
                 /\ r.dissenting_opinions = 1

\* The record of the example, and a record whose winning group is smaller than
\* the number of opinions it is divided by.
C14_Witness ==
    /\ ExampleLedger(TopicX)
    /\ HasConsensus(TopicX)
    /\ Len(consensus_topics[TopicX].supporting_agents) < consensus_topics[TopicX].confidence.den

\* C15: for every topic with at least ConsensusThreshold distinct-agent
\* opinions the stored consensus record is the result of the consensus
\* algorithm run from scratch on the topic's current opinions, whether the
\* last post_opinion added an agent or overwrote an opinion.
C15_RecordIsRecomputed ==
    \A t \in Topics :
        Cardinality(OpinionAgents(t)) >= ConsensusThreshold =>
            /\ HasConsensus(t)
            /\ consensus_topics[t] = AttemptConsensus(t, Ledger(t))

\* A record that has replaced an earlier one with another winner: more agents
\* than the threshold have an opinion, one of them overwrote its opinion after
\* a later agent gave its own, and the record counts a dissenting group.
C15_Witness ==
    \E t \in Topics :
        /\ Cardinality(OpinionAgents(t)) > ConsensusThreshold
        /\ HasConsensus(t)
        /\ \E i, j \in 1..Len(Ledger(t)) :
              i < j /\ Ledger(t)[i].timestamp > Ledger(t)[j].timestamp
        /\ consensus_topics[t].dissenting_opinions > 0

\* The first OpinionKeyLen characters of the lower-cased statement.
TextKey(statement) ==
    [i \in 1..Min({Len(statement), OpinionKeyLen}) |-> LowerChar(statement[i])]

\* The positions in the ledger of topic t of the supporters of its record.
Supporters(t) ==
    {i \in 1..Len(Ledger(t)) :
        \E k \in 1..Len(consensus_topics[t].supporting_agents) :
            consensus_topics[t].supporting_agents[k] = Ledger(t)[i].agent_id}

\* C16 as stated: opinions whose statements have the same named category are in
\* the same group, and a winning group of a category has the category's name
\* as its key.
C16_CategoryGrouping ==
    \A t \in Topics : HasConsensus(t) =>
        \A i \in Supporters(t) :
            Category(Ledger(t)[i].opinion) # None =>
                /\ consensus_topics[t].consensus = Category(Ledger(t)[i].opinion)
                /\ \A j \in 1..Len(Ledger(t)) :
                      Category(Ledger(t)[j].opinion) = Category(Ledger(t)[i].opinion)
                      => j \in Supporters(t)

\* C16 amended: consensus evaluation groups opinions by the first OpinionKeyLen
\* characters of the lower-cased statement alone.  The winning key is that
\* text of its supporters' statements, an opinion is in the winning group
\* exactly when its statement has that text, whatever its category, and
\* statements of one category with different texts are in different groups.
C16_TextKeyGrouping ==
    \A t \in Topics : HasConsensus(t) =>
        /\ Supporters(t) # {}
        /\ \A i \in Supporters(t) :
              /\ consensus_topics[t].consensus = TextKey(Ledger(t)[i].opinion)
              /\ \A j \in 1..Len(Ledger(t)) :
                    j \in Supporters(t)
                    <=> TextKey(Ledger(t)[j].opinion) = TextKey(Ledger(t)[i].opinion)

\* A record whose supporters exclude an opinion of their own category.
C16_Witness ==
    \E t \in Topics :
        /\ HasConsensus(t)
        /\ \E i \in Supporters(t) : \E j \in 1..Len(Ledger(t)) :
              /\ j \notin Supporters(t)
              /\ Category(Ledger(t)[i].opinion) # None
              /\ Category(Ledger(t)[j].opinion) = Category(Ledger(t)[i].opinion)

\* The log holds a message of priority CRITICAL on topic t.
CriticalPublished(t) ==
    \E i \in 1..Len(conversation_log) :
        /\ conversation_log[i].priority = CRITICAL
        /\ conversation_log[i].topic = t

\* C17: for every topic t, has_alert(t) is true exactly when a message of
\* priority CRITICAL and topic t has been published since the last clear,
\* whatever the types and the other priorities of the messages published; it
\* is true while the handlers of such a message run.
C17_AlertIffCriticalPublished ==
    /\ \A t \in AllTopics : HasAlert(t) <=> CriticalPublished(t)
    /\ \A k \in 1..Len(stack) :
          stack[k].message.priority = CRITICAL => HasAlert(stack[k].message.topic)

\* The first handler runs for a CRITICAL message, whose topic has an alert,
\* while a topic with a published message of type ALERT and lower priority has
\* none.
C17_Witness ==
    /\ stack # <<>>
    /\ Last(stack).message.priority = CRITICAL
    /\ Len(deliveries[Last(stack).idx]) = 1
    /\ HasAlert(Last(stack).message.topic)
    /\ \E i \in 1..Len(conversation_log) :
          /\ conversation_log[i].type = ALERT
          /\ conversation_log[i].priority # CRITICAL
          /\ ~HasAlert(conversation_log[i].topic)

\* Every store that clear() resets is empty, as held and as read.
AllEmpty ==
    /\ knowledge_base = EmptyDict
    /\ active_alerts = <<>>
    /\ conversation_log = <<>>
    /\ agent_opinions = EmptyDict
    /\ consensus_topics = EmptyDict
    /\ pending_questions = <<>>
    /\ \A t \in AllTopics :
          /\ GetLatestFinding(t) = None
          /\ ~HasAlert(t)
          /\ Ledger(t) = <<>>
          /\ ~HasConsensus(t)

\* A step takes something out of a store.
Removes ==
    \/ Len(conversation_log') < Len(conversation_log)
    \/ Len(active_alerts') < Len(active_alerts)
    \/ Len(pending_questions') < Len(pending_questions)
    \/ \E t \in DOMAIN knowledge_base : t \notin DOMAIN knowledge_base'
    \/ \E t \in DOMAIN agent_opinions : t \notin DOMAIN agent_opinions'
    \/ \E t \in DOMAIN consensus_topics : t \notin DOMAIN consensus_topics'

\* C18: clear() is one step, after which the knowledge store, the alert
\* registry, the conversation log, the opinion ledger, the consensus records
\* and the pending questions are all empty, get_latest_finding returns None
\* and has_alert false for every topic; no step empties a part of them only.
C18_ClearEmptiesAll == [][(Clear \/ Removes) => AllEmpty']_vars

\* The blackboard after the reset of a session in which messages were
\* published.
C18_Witness ==
    /\ AllEmpty
    /\ issued # <<>>
    /\ stack = <<>>

\* The first entry of the registry under which agent a matches topic t.
FirstMatch(a, t) ==
    LET es == Entries(subscribers)
    IN es[Min({p \in 1..Len(es) : es[p].agent_id = a /\ MatchesPattern(t, es[p].pattern)})]

\* C19: clear(), post, ask_question, respond_to_question and post_opinion, and
\* the return of a handler, leave the subscription registry unchanged; so a
\* publish that returns, before or after a clear, has invoked for each
\* subscriber owed a notification the handler registered for it.
C19_SubscriptionsKept ==
    /\ [][(\/ Clear
           \/ \E i \in SessionPosts : Post(i[1], i[2], i[3], i[4], i[5])
           \/ \E a \in Askers : AskQuestion(a, "q1", <<>>)
           \/ \E a \in Responders, q \in QuestionIds : RespondToQuestion(a, q, "r1")
           \/ \E i \in OpinionInputs : PostOpinion(i[1], i[2], i[3], i[4])
           \/ HandlerReturn)
          => subscribers' = subscribers]_vars
    /\ []((PublishReturned /\ ~returned.raised) =>
            \A a \in Recipients(returned.message[1]) :
                \E i \in 1..Len(deliveries[returned.idx]) :
                    /\ deliveries[returned.idx][i].agent_id = a
                    /\ deliveries[returned.idx][i].callback =
                          FirstMatch(a, returned.message[1].topic).callback)

\* A publish made after a clear has returned with its subscriber notified.
C19_Witness ==
    /\ PublishReturned
    /\ Len(issued) > Len(conversation_log)
    /\ deliveries[returned.idx] # <<>>

\* The number of wildcards in a pattern.
Stars(pattern) == Cardinality({i \in 1..Len(pattern) : pattern[i] = Star})

\* A pattern with no wildcard, or with exactly one, at its start or at its end.
SimplePattern(pattern) ==
    \/ Stars(pattern) = 0
    \/ Stars(pattern) = 1 /\ (Head(pattern) = Star \/ Last(pattern) = Star)

\* The pattern equals the topic, or ends in a wildcard with the topic starting
\* with the rest of it, or starts with a wildcard with the topic ending with
\* the rest of it.
MatchExpected(topic, pattern) ==
    \/ pattern = topic
    \/ /\ pattern # <<>>
       /\ Last(pattern) = Star
       /\ \E k \in 0..Len(topic) :
             SubSeq(topic, 1, k) = SubSeq(pattern, 1, Len(pattern) - 1)
    \/ /\ pattern # <<>>
       /\ Head(pattern) = Star
       /\ \E k \in 0..Len(topic) :
             SubSeq(topic, k + 1, Len(topic)) = Tail(pattern)

\* C20: for every published topic and every registered pattern with no
\* wildcard or one wildcard at an end, _matches_pattern is true exactly when
\* the pattern equals the topic, or ends in the wildcard and the topic starts
\* with the rest, or starts with the wildcard and the topic ends with the rest;
\* the dispatcher invokes the subscriber of the pattern exactly in that case.
C20_MatchesSimplePatterns ==
    \A n \in 1..Len(conversation_log) : \A p \in 1..NumEntries(subscribers) :
        LET topic == conversation_log[n].topic
            e == Entries(subscribers)[p]
        IN SimplePattern(e.pattern) =>
              /\ MatchesPattern(topic, e.pattern) <=> MatchExpected(topic, e.pattern)
              /\ (\E i \in 1..Len(deliveries[n]) : deliveries[n][i].agent_id = e.agent_id)
                 <=> MatchExpected(topic, e.pattern)

\* Under lab_* the subscriber was notified of lab_complete and not of
\* xlab_complete, or under *_bar of foo_bar and not of bar_foo.
C20_Witness ==
    /\ Len(conversation_log) = 2
    /\ \E p \in 1..NumEntries(subscribers) :
          \/ /\ Entries(subscribers)[p].pattern = LabStar
             /\ conversation_log[1].topic = LabComplete
             /\ conversation_log[2].topic = XLabComplete
          \/ /\ Entries(subscribers)[p].pattern = StarBar
             /\ conversation_log[1].topic = FooBar
             /\ conversation_log[2].topic = BarFoo
    /\ deliveries[1] # <<>>
    /\ deliveries[2] = <<>>

\* A pattern with wildcards at both ends, the pattern * included, or with a
\* wildcard in the middle.
CompoundPattern(pattern) ==
    /\ pattern # <<>>
    /\ \/ Head(pattern) = Star /\ Last(pattern) = Star
       \/ \E i \in 2..(Len(pattern) - 1) : pattern[i] = Star

\* The subscriber of registry entry e was invoked for log entry n.
Delivered(n, e) ==
    \E i \in 1..Len(deliveries[n]) : deliveries[n][i].agent_id = e.agent_id

\* C21 as stated: a pattern with wildcards at both ends, the pattern *
\* included, or with a wildcard in the middle matches only the topic equal to
\* it, and its subscriber is notified of no other topic.
C21_CompoundMatchesLiteralOnly ==
    \A n \in 1..Len(conversation_log) : \A p \in 1..NumEntries(subscribers) :
        LET topic == conversation_log[n].topic
            e == Entries(subscribers)[p]
        IN CompoundPattern(e.pattern) =>
              /\ MatchesPattern(topic, e.pattern) <=> topic = e.pattern
              /\ Delivered(n, e) <=> topic = e.pattern

\* What a pattern with wildcards at both ends or in the middle matches: the
\* topic equal to it; when it ends in a wildcard, the topics that start with
\* the pattern less its last character; otherwise, when it starts with a
\* wildcard, the topics that end with the pattern less its first character.
\* Every other wildcard stands for itself.
CompoundExpected(topic, pattern) ==
    \/ pattern = topic
    \/ /\ Last(pattern) = Star
       /\ \E k \in 0..Len(topic) :
             SubSeq(topic, 1, k) = SubSeq(pattern, 1, Len(pattern) - 1)
    \/ /\ Last(pattern) # Star
       /\ Head(pattern) = Star
       /\ \E k \in 0..Len(topic) : SubSeq(topic, k + 1, Len(topic)) = Tail(pattern)

\* C21 amended: the matcher reads one wildcard only, the last character of the
\* pattern or else the first, and takes every other wildcard literally.  So
\* the pattern * matches every topic, a pattern with wildcards at both ends
\* matches the topics that start with the pattern less its last character, a
\* pattern with a wildcard in the middle alone matches only the topic equal to
\* it, and the dispatcher notifies the subscriber exactly of those topics.
C21_CompoundMatchesAsOneWildcard ==
    \A n \in 1..Len(conversation_log) : \A p \in 1..NumEntries(subscribers) :
        LET topic == conversation_log[n].topic
            e == Entries(subscribers)[p]
        IN CompoundPattern(e.pattern) =>
              /\ MatchesPattern(topic, e.pattern) <=> CompoundExpected(topic, e.pattern)
              /\ Delivered(n, e) <=> CompoundExpected(topic, e.pattern)
              /\ e.pattern = <<Star>> => Delivered(n, e)
              /\ (e.pattern = LaStarB /\ Delivered(n, e)) => topic = LaStarB

\* Under * the subscriber was notified of lab_complete and of foo_bar, or under
\* *lab* of *lab_x and not of lab_x.
C21_Witness ==
    /\ Len(conversation_log) = 2
    /\ \E p \in 1..NumEntries(subscribers) :
          \/ /\ Entries(subscribers)[p].pattern = <<Star>>
             /\ conversation_log[1].topic = LabComplete
             /\ conversation_log[2].topic = FooBar
             /\ deliveries[2] # <<>>
          \/ /\ Entries(subscribers)[p].pattern = StarLabStar
             /\ conversation_log[1].topic = StarLabX
             /\ conversation_log[2].topic = LabX
             /\ deliveries[2] = <<>>
    /\ deliveries[1] # <<>>

\* ---------------------------------------------- vocabulary of the questions
\* The messages of type QUESTION in the log, in the order of their publication.
QuestionsPublished == SelectSeq(conversation_log, LAMBDA m : m.type = QUESTION)

\* C22: the k-th ask_question call since the last clear, made from outside or
\* from a handler, has put a pending question at position k and published one
\* message of type QUESTION on topic question_k with the question text; no two
\* pending questions share a derived topic.
C22_QuestionOrdinals ==
    /\ Len(QuestionsPublished) = Len(pending_questions)
    /\ \A k \in 1..Len(pending_questions) :
          /\ QuestionsPublished[k].topic = QuestionTopic(k)
          /\ QuestionsPublished[k].content = pending_questions[k].question
          /\ QuestionsPublished[k].agent_id = pending_questions[k].asking_agent
          /\ \A j \in 1..Len(pending_questions) :
                j # k => QuestionsPublished[j].topic # QuestionsPublished[k].topic

\* Two questions are pending, the second asked by the handler that runs for
\* the first.
C22_Witness ==
    /\ Len(pending_questions) = 2
    /\ Len(stack) = 1
    /\ stack[1].message.topic = QuestionTopic(1)
    /\ pending_questions[2].asking_agent = stack[1].agent_id
    /\ pending_questions[2].question # pending_questions[1].question

\* C23: for every k from 1 to the number of pending questions, a
\* respond_to_question on topic question_k appends one response entry, with
\* the responder and the text, to the k-th pending question and to no other,
\* and publishes one message of type RESPONSE on topic question_k.
C23_RespondReachesKth ==
    [][\A a \in Responders : \A k \in 1..Len(pending_questions) :
          RespondToQuestion(a, QuestionTopic(k), "r1") =>
             /\ Len(pending_questions') = Len(pending_questions)
             /\ Len(pending_questions'[k].responses)
                   = Len(pending_questions[k].responses) + 1
             /\ Last(pending_questions'[k].responses).agent_id = a
             /\ Last(pending_questions'[k].responses).response = "r1"
             /\ \A j \in 1..Len(pending_questions) :
                   j # k => pending_questions'[j] = pending_questions[j]
             /\ Len(conversation_log') = Len(conversation_log) + 1
             /\ Last(conversation_log').type = RESPONSE
             /\ Last(conversation_log').topic = QuestionTopic(k)]_vars

\* The topics question_1 .. question_n of the n pending questions.
PendingTopics == {QuestionTopic(k) : k \in 1..Len(pending_questions)}

\* C24: a respond_to_question on a topic that belongs to no pending question
\* (the ordinal 0, an ordinal beyond the list, a topic of another form, any
\* topic when the list is empty) returns without raising and changes nothing:
\* no response entry, no message, no handler invocation.
C24_UnknownQuestionIgnored ==
    [][\A a \in Responders : \A q \in ResponseIds :
          (q \notin PendingTopics /\ RespondToQuestion(a, q, "r1")) =>
             /\ returned' = NoPublish
             /\ UNCHANGED <<pending_questions, conversation_log, knowledge_base,
                            active_alerts, deliveries, calls, stack, issued,
                            subscribers, agent_opinions, consensus_topics>>]_vars

\* A response to a topic of no pending question has just been dropped: no
\* subscriber is registered, messages are in the log, the last call published
\* nothing, and no pending question has a response.
C24_Witness ==
    /\ subscribers = <<>>
    /\ conversation_log # <<>>
    /\ returned = NoPublish
    /\ pending_questions # <<>>
    /\ \A k \in 1..Len(pending_questions) : pending_questions[k].responses = <<>>

\* What _compile_results of a session would read now is the session's own:
\* every message of the log and every alert carries its patient, and its
\* patient record is the latest finding on patient_data.
ReadsOwnData(run) ==
    /\ \A i \in 1..Len(conversation_log) : conversation_log[i].content = run
    /\ \A i \in 1..Len(active_alerts) : active_alerts[i].content = run
    /\ GetLatestFinding(PatientData) = run
    /\ GetAgentConversation(None) # <<>>

\* C25: no data of one analysis session leaks into another: whenever an
\* analyze_patient run that has posted its patient record may go on (no
\* handler runs, no other call is between two awaits), everything it would
\* read from the bus was written by the same run, and its own data is still
\* there; for runs one after the other and for two runs in flight together.
C25_NoSessionLeak ==
    \A run \in Runs : (sessions[run] = "loaded" /\ MayRun(run)) => ReadsOwnData(run)

\* Message m is an element of the sequence.
Holds(seq, m) == \E i \in 1..Len(seq) : seq[i] = m

\* C26: whenever a handler is running for a message m, m is already in the
\* conversation log and in the topic history of its topic, and in the alert
\* registry if its priority is CRITICAL.
C26_StoredBeforeNotified ==
    \A k \in 1..Len(stack) :
        LET m == stack[k].message
        IN /\ Holds(conversation_log, m)
           /\ Holds(GetKnowledge(m.topic), m)
           /\ m.priority = CRITICAL => Holds(active_alerts, m)

\* A handler is running for a CRITICAL message that is not the first of the
\* log.
C26_Witness ==
    /\ stack # <<>>
    /\ Last(stack).message.priority = CRITICAL
    /\ Last(stack).idx > 1
    /\ Holds(active_alerts, Last(stack).message)

\* C27: in every state the stores agree: the topic history of every topic is
\* the subsequence of the conversation log on that topic (no history for a
\* topic the log does not have), and the alert registry is the subsequence of
\* the log with priority CRITICAL.
C27_StoresAgree ==
    /\ DOMAIN knowledge_base = {conversation_log[i].topic : i \in 1..Len(conversation_log)}
    /\ \A t \in DOMAIN knowledge_base :
          knowledge_base[t] = SelectSeq(conversation_log, LAMBDA m : m.topic = t)
    /\ active_alerts = SelectSeq(conversation_log, LAMBDA m : m.priority = CRITICAL)

\* A handler observes a log of two messages on two topics, one of them
\* CRITICAL and one not.
C27_Witness ==
    /\ stack # <<>>
    /\ Len(conversation_log) = 2
    /\ Len(active_alerts) = 1
    /\ Cardinality(DOMAIN knowledge_base) = 2

\* C28: between two clears the opinion state of a topic only moves forward:
\* a step other than clear() never reduces the set of agents with an opinion
\* on a topic and never drops a consensus record, and in every state a topic
\* has a consensus record exactly when three or more agents have an opinion
\* on it.
C28_OpinionsMoveForward ==
    /\ [](\A t \in AllTopics :
             HasConsensus(t) <=> Cardinality(OpinionAgents(t)) >= ConsensusThreshold)
    /\ [][Clear \/ \A t \in AllTopics :
                      /\ OpinionAgents(t) \subseteq OpinionAgents(t)'
                      /\ Cardinality(OpinionAgents(t)') >= Cardinality(OpinionAgents(t))
                      /\ HasConsensus(t) => HasConsensus(t)']_vars

\* One topic is evaluated with four agents, of whom one has stated a second
\* opinion, while another topic is accumulating.
C28_Witness ==
    /\ Cardinality(OpinionAgents(TopicX)) = 4
    /\ HasConsensus(TopicX)
    /\ \E i \in 1..Len(Ledger(TopicX)) :
          Ledger(TopicX)[i].agent_id = "A" /\ Ledger(TopicX)[i].opinion = LongX
    /\ Cardinality(OpinionAgents(TopicY)) = 1
    /\ ~HasConsensus(TopicY)

\* The consensus record of topic t, <<>> when it has none.
ConsensusOf(t) == IF HasConsensus(t) THEN <<consensus_topics[t]>> ELSE <<>>

\* The ledger entries of topic t held by agents other than a.
EntriesOfOthers(t, a) == SelectSeq(Ledger(t), LAMBDA e : e.agent_id # a)

\* C29: post_opinion(agent, topic, ...) changes only the ledger entry of
\* (topic, agent) and the consensus record of that topic: it publishes
\* nothing, invokes no handler, and leaves the log, the knowledge store, the
\* alerts, the pending questions, the subscriptions, the entries of the other
\* agents and the opinions and records of every other topic as they were,
\* also when the topic reaches consensus.
C29_OpinionFrame ==
    [][\A i \in FrameOpinions :
          PostOpinion(i[1], i[2], i[3], i[4]) =>
             /\ UNCHANGED <<conversation_log, knowledge_base, active_alerts,
                            pending_questions, subscribers, stack, deliveries,
                            calls, issued>>
             /\ EntriesOfOthers(i[2], i[1])' = EntriesOfOthers(i[2], i[1])
             /\ \A t \in AllTopics \ {i[2]} :
                   /\ Ledger(t)' = Ledger(t)
                   /\ ConsensusOf(t)' = ConsensusOf(t)
             /\ DOMAIN agent_opinions' \subseteq DOMAIN agent_opinions \cup {i[2]}
             /\ DOMAIN consensus_topics' \subseteq DOMAIN consensus_topics \cup {i[2]}]_vars

\* The subscriber has stated from its handler the opinion that made the topic
\* reach consensus, with a message in the log and an alert, and another topic
\* holds an opinion.
C29_Witness ==
    /\ stack # <<>>
    /\ HasConsensus(TopicX)
    /\ Ledger(TopicX) # <<>>
    /\ Last(Ledger(TopicX)).agent_id = "B"
    /\ Len(Ledger(TopicX)) = ConsensusThreshold
    /\ Ledger(TopicY) # <<>>
    /\ active_alerts # <<>>

\* Some respond_to_question call of the inputs is the step taken.
SomeResponse ==
    \E a \in {"A"} \cup SubscriberIds : \E q \in ResponseIds : RespondToQuestion(a, q, "r1")

\* C30: between two clears no step removes or reorders a pending question: the
\* question at position k (the one asked on topic question_k) keeps its
\* position, text, asker and targets, its responses are only added to, and
\* only by respond_to_question, so that a question with no response stays in
\* the list with an empty response list.
C30_QuestionsKeepPlace ==
    [][Clear \/
       /\ Len(pending_questions') >= Len(pending_questions)
       /\ \A k \in 1..Len(pending_questions) :
             /\ pending_questions'[k].question = pending_questions[k].question
             /\ pending_questions'[k].asking_agent = pending_questions[k].asking_agent
             /\ pending_questions'[k].target_agents = pending_questions[k].target_agents
             /\ IsPrefix(pending_questions[k].responses, pending_questions'[k].responses)
             /\ pending_questions'[k].responses # pending_questions[k].responses
                   => SomeResponse]_vars

\* Two different questions are pending in the order they were asked, the
\* first published on question_1 and the second on question_2, neither with a
\* response, and no call is in progress.
C30_Witness ==
    /\ stack = <<>>
    /\ Len(pending_questions) = 2
    /\ pending_questions[1].question = "q1"
    /\ pending_questions[2].question = "q2"
    /\ \A k \in 1..2 : pending_questions[k].responses = <<>>
    /\ Len(QuestionsPublished) = 2
    /\ \A k \in 1..2 : /\ QuestionsPublished[k].topic = QuestionTopic(k)
                       /\ QuestionsPublished[k].content = pending_questions[k].question

\* A message with the distinction between HIGH, NORMAL and LOW removed.
ErasePriority(m) == [m EXCEPT !.priority = IF @ = CRITICAL THEN CRITICAL ELSE NORMAL]

EraseSeq(seq) == [i \in 1..Len(seq) |-> ErasePriority(seq[i])]

\* What a run of the bus shows, apart from which of HIGH, NORMAL and LOW its
\* messages carry: the log, the topic histories, the handler invocations of
\* every message in their order, the calls in progress and the outcome of the
\* last call.
Shown(log, kb, dl, stk, ret) ==
    [conversation_log |-> EraseSeq(log),
     knowledge_base |-> [t \in DOMAIN kb |-> EraseSeq(kb[t])],
     deliveries |-> [n \in 1..Len(dl) |->
                        [j \in 1..Len(dl[n]) |->
                            [dl[n][j] EXCEPT !.message = ErasePriority(@)]]],
     stack |-> [k \in 1..Len(stk) |-> [stk[k] EXCEPT !.message = ErasePriority(@)]],
     returned |-> [ret EXCEPT !.message = EraseSeq(@)]]

\* C31: two runs of the bus given the same calls, whose messages differ only
\* in which of HIGH, NORMAL and LOW they carry, have the same handler
\* invocations in the same order, the same log and topic histories apart
\* from the stored priority, and the same alert registry.
C31_LowPrioritiesUnobservable ==
    /\ Shown(conversation_log, knowledge_base, deliveries, stack, returned)
          = Shown(twin.conversation_log, twin.knowledge_base, twin.deliveries,
                  twin.stack, twin.returned)
    /\ active_alerts = twin.active_alerts

\* Both runs have a handler running for a nested post, with a message that is
\* HIGH in one run and NORMAL in the other and one that is LOW in one and
\* HIGH in the other.
C31_Witness ==
    /\ Len(stack) = 2
    /\ Len(twin.stack) = 2
    /\ conversation_log[1].priority = HIGH
    /\ twin.conversation_log[1].priority = NORMAL
    /\ conversation_log[2].priority = LOW
    /\ twin.conversation_log[2].priority = HIGH

\* C32: with the five agents registered, every post, ask_question and
\* respond_to_question call returns: whenever handlers are running, the
\* dispatch they belong to comes to its end.
C32_CallsReturn == (stack # <<>>) ~> (stack = <<>>)

\* The messages of the log published by agent a with type ty.
PublishedBy(a, ty) ==
    SelectSeq(conversation_log, LAMBDA m : m.agent_id = a /\ m.type = ty)

\* One ask_question has returned after the handlers of two agents each
\* answered it from inside its dispatch, and their answers were dispatched.
C32_Witness ==
    /\ stack = <<>>
    /\ returned.op = "ask_question"
    /\ Len(conversation_log) = 3
    /\ PublishedBy("LabAnalyzer", RESPONSE) # <<>>
    /\ PublishedBy("ConsensusBuilder", RESPONSE) # <<>>
    /\ Len(deliveries[2]) = 4
    /\ Len(deliveries[3]) = 4

\* The agents whose handle_event answers a question only when its own id is in
\* the text of message['target_agents'].
GatedAgents == {"RiskStratifier", "ClinicalDecision", "ImageAnalyzer"}

\* The ids of the agents that hold a subscription matching the topic.
MatchingSubscribers(topic) ==
    {Entries(subscribers)[p].agent_id :
        p \in {q \in 1..NumEntries(subscribers) :
                  MatchesPattern(topic, Entries(subscribers)[q].pattern)}}

\* The ids of the agents to which the n-th message of the log was dispatched.
DispatchedTo(n) == {deliveries[n][i].agent_id : i \in 1..Len(deliveries[n])}

\* The dispatch of the n-th message of the log is over.
Dispatched(n) == \A j \in 1..Len(stack) : stack[j].idx # n

\* C33: the target list of ask_question is kept in the pending question only:
\* no published message has a target_agents field, a QUESTION is dispatched to
\* every subscriber with a matching pattern but its asker, in the list or not,
\* and the handlers of RiskStratifier, ClinicalDecision and ImageAnalyzer, which
\* look for their id in message['target_agents'], never call
\* respond_to_question.
C33_TargetsNeverPublished ==
    /\ \A n \in 1..Len(conversation_log) :
          /\ "target_agents" \notin DOMAIN conversation_log[n]
          /\ (conversation_log[n].type = QUESTION /\ Dispatched(n))
                => DispatchedTo(n) = MatchingSubscribers(conversation_log[n].topic)
                                        \ {conversation_log[n].agent_id}
    /\ \A j \in 1..Len(stack) :
          /\ "target_agents" \notin DOMAIN stack[j].message
          /\ stack[j].agent_id \in GatedAgents
                => HandleEvent(stack[j].agent_id, stack[j].message.topic,
                               stack[j].message).call # "respond_to_question"
    /\ \A k \in 1..Len(pending_questions) :
          \A i \in 1..Len(pending_questions[k].responses) :
             pending_questions[k].responses[i].agent_id \notin GatedAgents
    /\ \A i \in 1..Len(calls) :
          (calls[i].type = RESPONSE /\ StartsWith(calls[i].topic, QuestionPrefix))
             => calls[i].agent_id \notin GatedAgents

\* A question whose text asks ClinicalDecision for its dosing answer and whose
\* target list names it has been dispatched to all four other agents, the
\* ConsensusBuilder outside the list included, and nobody answered.
C33_Witness ==
    /\ stack = <<>>
    /\ Len(conversation_log) = 1
    /\ conversation_log[1].type = QUESTION
    /\ conversation_log[1].content = KidneyQuestion
    /\ pending_questions[1].target_agents = <<"ClinicalDecision">>
    /\ pending_questions[1].responses = <<>>
    /\ DispatchedTo(1) = {AgentIds[i] : i \in 1..Len(AgentIds)} \ {"LabAnalyzer"}
    /\ \A i \in 1..Len(deliveries[1]) : deliveries[1][i].outcome = "ok"

\* The agents that hold an opinion on the topic.
OpinionHolders(topic) ==
    IF topic \in DOMAIN agent_opinions
    THEN {agent_opinions[topic][i].agent_id : i \in 1..Len(agent_opinions[topic])}
    ELSE {}

\* C34: in the orchestrated pipeline no topic collects opinions of three
\* agents: primary_diagnosis has opinions of ImageAnalyzer and ClinicalDecision
\* only, treatment_plan, disposition_recommendation and final_consensus of one
\* agent each, so no consensus record is ever stored and the count of
\* consensus topics that the orchestrator reports is 0.
C34_NoConsensusInPipeline ==
    /\ \A topic \in DOMAIN agent_opinions :
          Cardinality(OpinionHolders(topic)) < ConsensusThreshold
    /\ OpinionHolders(PrimaryDiagnosis) \subseteq {"ImageAnalyzer", "ClinicalDecision"}
    /\ OpinionHolders(TreatmentPlan) \subseteq {"ClinicalDecision"}
    /\ OpinionHolders(DispositionRecommendation) \subseteq {"RiskStratifier"}
    /\ OpinionHolders(FinalConsensus) \subseteq {"ConsensusBuilder"}
    /\ consensus_topics = EmptyDict
    /\ Cardinality(DOMAIN consensus_topics) = 0

\* Every agent of the pipeline has stated its opinions: primary_diagnosis has
\* those of two agents, and the other three topics one each.
C34_Witness ==
    /\ OpinionHolders(PrimaryDiagnosis) = {"ImageAnalyzer", "ClinicalDecision"}
    /\ agent_opinions[PrimaryDiagnosis][1].confidence = 9
    /\ agent_opinions[PrimaryDiagnosis][2].opinion = Sepsis
    /\ OpinionHolders(TreatmentPlan) = {"ClinicalDecision"}
    /\ OpinionHolders(DispositionRecommendation) = {"RiskStratifier"}
    /\ OpinionHolders(FinalConsensus) = {"ConsensusBuilder"}

\* One, in tenths.
FullConfidence == 10

\* Every opinion held on the topic has a confidence between 0 and 1.
ConfidencesInRange(topic) ==
    \A i \in 1..Len(agent_opinions[topic]) :
       /\ 0 <= agent_opinions[topic][i].confidence
       /\ agent_opinions[topic][i].confidence <= FullConfidence

\* The agents whose opinion on the topic has the key.
HoldersOfKey(topic, key) ==
    {agent_opinions[topic][i].agent_id :
        i \in {j \in 1..Len(agent_opinions[topic]) :
                  OpinionKey(agent_opinions[topic][j].opinion) = key}}

\* C35: the supporting agents of a stored consensus record are the agents
\* whose opinion on the topic is now in the winning group, each once and at
\* least one, all of them holders of an opinion on the topic; and when every
\* confidence is between 0 and 1 the confidence of the record is between 0
\* and 1 and at most the size of the winning group over the number of
\* opinions.
C35_ConsensusConfidenceBounded ==
    \A topic \in DOMAIN consensus_topics :
       LET rec == consensus_topics[topic]
           agents == rec.supporting_agents
           c == rec.confidence
       IN /\ topic \in DOMAIN agent_opinions
          /\ agents # <<>>
          /\ \A i, j \in 1..Len(agents) : agents[i] = agents[j] => i = j
          /\ {agents[i] : i \in 1..Len(agents)} = HoldersOfKey(topic, rec.consensus)
          /\ {agents[i] : i \in 1..Len(agents)} \subseteq OpinionHolders(topic)
          /\ ConfidencesInRange(topic) =>
                /\ c.den > 0
                /\ 0 <= c.num
                /\ c.num <= FullConfidence * c.den
                /\ c.num * Len(agent_opinions[topic])
                      <= FullConfidence * Len(agents) * c.den

\* A record over four opinions in range: three agents hold the winning
\* statement, two of them with confidence 1 and one with confidence 0.
C35_Witness ==
    /\ TopicX \in DOMAIN consensus_topics
    /\ ConfidencesInRange(TopicX)
    /\ consensus_topics[TopicX].consensus = Pneumonia
    /\ consensus_topics[TopicX].confidence = [num |-> 20, den |-> 4]
    /\ Len(consensus_topics[TopicX].supporting_agents) = 3

\* The places of the registry: <<k, i>> is the i-th subscription under the
\* k-th pattern, the patterns counted in the order of their first subscribe.
RegistrySlots ==
    UNION {{<<k, i>> : i \in 1..Len(subscribers[k].subs)} : k \in 1..Len(subscribers)}

\* Place s comes before place t: an older pattern, or the same pattern and an
\* older subscription.
SlotBefore(s, t) == s[1] < t[1] \/ (s[1] = t[1] /\ s[2] < t[2])

\* The rank of a place in that order.
SlotRank(s) == Cardinality({t \in RegistrySlots : SlotBefore(t, s)}) + 1

\* The place a delivery was made through.
SlotOf(d) == CHOOSE s \in RegistrySlots : SlotRank(s) = d.pos

\* The places through which the message would reach the agent.
SlotsFor(message, agent_id) ==
    {s \in RegistrySlots :
        /\ subscribers[s[1]].subs[s[2]].agent_id = agent_id
        /\ MatchesPattern(message.topic, subscribers[s[1]].pattern)}

\* C36: the handlers of one post are invoked in the order of the registry,
\* patterns in the order of their first registration and the subscriptions of
\* a pattern in the order they were made, each through the callback registered
\* at its place; a subscriber with several matching subscriptions is invoked
\* through them in that order until an invocation succeeds, so its successful
\* invocation is through the earliest of them that succeeds, and the later
\* ones are skipped.
C36_RegistryOrder ==
    \A n \in 1..Len(deliveries) :
       LET dl == deliveries[n]
           message == conversation_log[n]
       IN /\ \A i \in 1..Len(dl) :
                /\ dl[i].pos \in 1..Cardinality(RegistrySlots)
                /\ SlotOf(dl[i]) \in SlotsFor(message, dl[i].agent_id)
                /\ dl[i].agent_id # message.agent_id
                /\ subscribers[SlotOf(dl[i])[1]].subs[SlotOf(dl[i])[2]].callback
                      = dl[i].callback
          /\ \A i, j \in 1..Len(dl) :
                i < j => SlotBefore(SlotOf(dl[i]), SlotOf(dl[j]))
          /\ \A i \in 1..Len(dl) :
                dl[i].outcome = "ok" =>
                   /\ \A j \in (i + 1)..Len(dl) : dl[j].agent_id # dl[i].agent_id
                   /\ \A s \in SlotsFor(message, dl[i].agent_id) :
                         SlotBefore(s, SlotOf(dl[i])) =>
                            \E j \in 1..(i - 1) : /\ SlotOf(dl[j]) = s
                                                  /\ dl[j].outcome = "raised"
          /\ Dispatched(n) =>
                \A a \in {"B", "C"} \ {message.agent_id} :
                   \A s \in SlotsFor(message, a) :
                      \E j \in 1..Len(dl) :
                         /\ dl[j].agent_id = a
                         /\ \/ SlotOf(dl[j]) = s
                            \/ dl[j].outcome = "ok" /\ SlotBefore(SlotOf(dl[j]), s)

\* B subscribed to x_*, then C to *_1 and to x_* with another handler: a post
\* on x_1 went to B, then to C through the handler under x_*, which raised,
\* then to C through the handler under *_1, which returned.
C36_Witness ==
    /\ subscribers = <<[pattern |-> PatPrefix,
                        subs |-> <<[agent_id |-> "B", callback |-> "handle_event"],
                                   [agent_id |-> "C", callback |-> "handle_other"]>>],
                       [pattern |-> PatSuffix,
                        subs |-> <<[agent_id |-> "C", callback |-> "handle_event"]>>]>>
    /\ stack = <<>>
    /\ Len(deliveries) >= 1
    /\ Len(deliveries[1]) = 3
    /\ deliveries[1][1].agent_id = "B" /\ deliveries[1][1].outcome = "ok"
    /\ deliveries[1][2].callback = "handle_other" /\ deliveries[1][2].outcome = "raised"
    /\ deliveries[1][3].callback = "handle_event" /\ deliveries[1][3].outcome = "ok"

====
